---- MODULE Spec2Model ----
(***************************************************************************)
(* Rate-gated automation engine of x-automation-tool.                      *)
(*                                                                         *)
(*   backend/core/rate_limiter.py      TokenBucket, UserRateLimiter,       *)
(*                                     RateLimiterManager                  *)
(*   backend/core/twitter_client.py    TwitterClient (like, retweet,       *)
(*                                     discovery calls)                    *)
(*   backend/services/action_executor.py  EngagementAutomationExecutor     *)
(*                                                                         *)
(* Time is the wall clock in whole seconds.  A bucket's float token count  *)
(* is kept in fixed point, Scale units per token; every refill rate of     *)
(* RATE_LIMITS is a whole number of units per second, so refills are exact.*)
(***************************************************************************)
EXTENDS Integers, Sequences, FiniteSets, TLC

\* ------------------------------------------------------------------------
\* Bounds of the exploration
\* ------------------------------------------------------------------------
MaxOps == 2
MaxTicks == 2
MaxCrashes == 1
\* the small daily quota a settings file may carry
MaxDailyLimit == 1
\* candidates handed to execute_selected_actions, over all sessions
MaxCandidates == 2
\* executors and clients constructed
MaxBuilt == 2

\* ------------------------------------------------------------------------
\* rate_limiter.py: configuration
\* ------------------------------------------------------------------------
Scale == 10800

window_15min == 15 * 60
window_24hour == 24 * 60 * 60

APIEndpoint == {"like", "retweet", "get_tweets", "get_liking_users", "get_retweeters"}

RATE_LIMITS ==
    [ like             |-> [requests_per_15min |-> 1,   requests_per_24hour |-> 1000],
      retweet          |-> [requests_per_15min |-> 50,  requests_per_24hour |-> 1000],
      get_tweets       |-> [requests_per_15min |-> 900, requests_per_24hour |-> 900 * 96],
      get_liking_users |-> [requests_per_15min |-> 75,  requests_per_24hour |-> 75 * 96],
      get_retweeters   |-> [requests_per_15min |-> 75,  requests_per_24hour |-> 75 * 96] ]

\* The keys of RateLimiterManager.user_limiters: the user ids handed to
\* get_limiter.  "None" is the key of a TwitterClient built with
\* user_id = None.
UserIds == {"u1", "u2", "None"}

\* the user whose limiter the specification Spec drives
SoloUsers == {"u1"}

\* the endpoints of the two automated actions
ActionEndpoints == {"like", "retweet"}

\* Seconds by which the clock advances between two calls.
Elapsed == {1, 600}

Min(a, b) == IF a <= b THEN a ELSE b

\* ------------------------------------------------------------------------
\* rate_limiter.py: TokenBucket
\* ------------------------------------------------------------------------
\* _refill without the min(capacity, ...) cap
Refill_Uncapped(b, t) ==
    LET elapsed == t - b.last_refill
    IN  IF elapsed > 0
        THEN [b EXCEPT !.tokens = b.tokens + elapsed * b.refill_rate,
                       !.last_refill = t]
        ELSE b

\* TokenBucket._refill at wall-clock time t
Refill(b, t) ==
    LET elapsed == t - b.last_refill
    IN  IF elapsed > 0
        THEN [b EXCEPT !.tokens = Min(b.capacity * Scale,
                                      b.tokens + elapsed * b.refill_rate),
                       !.last_refill = t]
        ELSE b

\* TokenBucket.consume with `>` for `>=`
BucketConsume_Strict(b, n, t) ==
    LET r == Refill(b, t)
    IN  IF r.tokens > n * Scale
        THEN [ok |-> TRUE,  bucket |-> [r EXCEPT !.tokens = r.tokens - n * Scale]]
        ELSE [ok |-> FALSE, bucket |-> r]

\* TokenBucket.consume(n) at time t: the returned flag and the bucket after
BucketConsume(b, n, t) ==
    LET r == Refill(b, t)
    IN  IF r.tokens >= n * Scale
        THEN [ok |-> TRUE,  bucket |-> [r EXCEPT !.tokens = r.tokens - n * Scale]]
        ELSE [ok |-> FALSE, bucket |-> r]

\* time_until_token_available returning tokens_needed, not divided by
\* the refill rate
TimeUntilTokenAvailable_Undivided(r) ==
    IF r.tokens >= Scale
    THEN [num |-> 0, den |-> 1]
    ELSE [num |-> Scale - r.tokens, den |-> Scale]

\* TokenBucket.time_until_token_available, as the exact fraction num/den
\* of seconds, read from a bucket that has just been refilled
TimeUntilTokenAvailable(r) ==
    IF r.tokens >= Scale
    THEN [num |-> 0, den |-> 1]
    ELSE [num |-> Scale - r.tokens, den |-> r.refill_rate]

\* UserRateLimiter._initialize_buckets at time t
InitBuckets15(t) ==
    [e \in APIEndpoint |->
        [capacity    |-> RATE_LIMITS[e].requests_per_15min,
         tokens      |-> RATE_LIMITS[e].requests_per_15min * Scale,
         last_refill |-> t,
         refill_rate |-> (RATE_LIMITS[e].requests_per_15min * Scale) \div window_15min]]

InitBuckets24(t) ==
    [e \in APIEndpoint |->
        [capacity    |-> RATE_LIMITS[e].requests_per_24hour,
         tokens      |-> RATE_LIMITS[e].requests_per_24hour * Scale,
         last_refill |-> t,
         refill_rate |-> (RATE_LIMITS[e].requests_per_24hour * Scale) \div window_24hour]]

InitHistory == [e \in APIEndpoint |-> << >>]


\* ------------------------------------------------------------------------
\* State
\* ------------------------------------------------------------------------
VARIABLES
    now,              \* time.time(), whole seconds
    ticks,            \* number of clock advances so far
    opCount,          \* number of limiter calls so far
    crashes,          \* number of process deaths so far
    user_limiters,    \* RateLimiterManager.user_limiters: ids with a live limiter
    buckets_15min,    \* UserRateLimiter.buckets_15min, per user id
    buckets_24hour,   \* UserRateLimiter.buckets_24hour, per user id
    request_history,  \* UserRateLimiter.request_history, per user id
    state_file,       \* data/users/<id>/rate_limit_state.json, per user id
    lastOp,           \* the last limiter call and what it returned
    preCrash,         \* per user id: the limiter's buckets when its process died
    everConsumed      \* per user id: some consume_request has returned True

VARIABLES
    env_credentials,    \* X_API_KEY, X_API_SECRET, X_ACCESS_TOKEN(_SECRET) are all set
    settings_file,      \* data/users/<tenant>/settings.json, per tenant
    twitter_clients,    \* the TwitterClient made by create_twitter_client(k), per id
    executors,          \* the EngagementAutomationExecutor of each tenant
    sessions,           \* the running execute_selected_actions of each tenant
    engagement_history, \* data/users/<tenant>/engagement_history.json
    batch_history,      \* data/users/<tenant>/batch_history.json
    apiCalls,           \* per limiter id and endpoint: calls sent to the X API
    admitted,           \* per limiter id and endpoint: consume_request calls that
                        \* returned True in a client
    dispatched,         \* candidates handed to execute_selected_actions so far
    built,              \* executors and clients constructed so far
    lastStep,           \* what the last client or executor step did
    analysis            \* PostAnalyzer: the analysis of a candidate's latest tweet

VARIABLES
    blacklist,          \* the "users" keys of the tenant's blacklist.json
    discovery,          \* the last analyze_engaging_users of each tenant
    loop_thread,        \* the coroutine that holds the event loop's thread
    tasks,              \* where each tenant's execute_selected_actions stands
    workers,            \* coroutines of one tenant inside consume_request
    calls,              \* the consume_request calls made by the workers, in order
    action_queue,       \* the rows of the table action_queue
    engaging,           \* a call of TwitterClient.get_engaging_users
    confidence,         \* a call of PostAnalyzer._calculate_confidence
    active_sessions,    \* SecureRequestHandler.active_sessions
    secure_sessions     \* the secure_session context of each request

limiterVars == << user_limiters, buckets_15min, buckets_24hour, request_history >>

sessionVars == << env_credentials, settings_file, twitter_clients, executors, sessions,
                  engagement_history, batch_history, apiCalls, admitted, dispatched,
                  built, lastStep, analysis >>

loopVars == << loop_thread, tasks >>

workerVars == << workers, calls >>

\* the tables of the database and the secure sessions
storeVars == << action_queue, engaging, confidence, active_sessions, secure_sessions >>

serviceVars == << blacklist, discovery, loopVars, workerVars, storeVars >>

vars == << now, ticks, opCount, crashes, limiterVars, state_file, lastOp, preCrash,
           everConsumed, sessionVars, serviceVars >>

\* ------------------------------------------------------------------------
\* The state file
\* ------------------------------------------------------------------------
\* no file on disk
AbsentFile ==
    [kind |-> "absent", timestamp |-> 0, buckets_15min |-> InitBuckets15(0),
     buckets_24hour |-> InitBuckets24(0), request_history |-> InitHistory]

\* a file that open(..., 'w') has truncated and json.dump has not completed:
\* json.load raises on it
TornFile == [AbsentFile EXCEPT !.kind = "torn"]

\* The file an earlier process left behind at time 0.  That process was
\* constructed at -36, got a 429 on retweet (short bucket forced to 0), had
\* 999 retweet consumes denied at -36 (each one took a token of the long
\* bucket), and at 0 consumed one like, which saved every bucket.
PriorRunFile ==
    [kind |-> "state",
     timestamp |-> 0,
     buckets_15min |->
        [InitBuckets15(0 - 36) EXCEPT
            !["like"].tokens = 0, !["like"].last_refill = 0,
            !["retweet"].tokens = 0],
     buckets_24hour |->
        [InitBuckets24(0 - 36) EXCEPT
            !["like"].tokens = 999 * Scale, !["like"].last_refill = 0,
            !["retweet"].tokens = 1 * Scale],
     request_history |-> [InitHistory EXCEPT !["like"] = << 0 >>]]

\* a _save_state that writes the time of the save as every bucket's
\* last_refill
SavedState_Stamped(b15, b24, hist, t) ==
    [kind |-> "state", timestamp |-> t,
     buckets_15min   |-> [e \in APIEndpoint |-> [b15[e] EXCEPT !.last_refill = t]],
     buckets_24hour  |-> [e \in APIEndpoint |-> [b24[e] EXCEPT !.last_refill = t]],
     request_history |-> [e \in APIEndpoint |-> hist[e]]]

\* UserRateLimiter._save_state: the file written from the limiter's fields,
\* one entry per endpoint of RATE_LIMITS with the bucket's capacity, tokens,
\* last_refill and refill_rate, and the endpoint's request history
SavedState(b15, b24, hist, t) ==
    [kind |-> "state", timestamp |-> t,
     buckets_15min   |-> [e \in APIEndpoint |-> b15[e]],
     buckets_24hour  |-> [e \in APIEndpoint |-> b24[e]],
     request_history |-> [e \in APIEndpoint |-> hist[e]]]

\* UserRateLimiter.__init__ (_initialize_buckets, then _load_state) at t:
\* a missing or unreadable file leaves the freshly initialised buckets
LoadedBuckets15(f, t) ==
    IF f.kind = "state" THEN f.buckets_15min ELSE InitBuckets15(t)

LoadedBuckets24(f, t) ==
    IF f.kind = "state" THEN f.buckets_24hour ELSE InitBuckets24(t)

LoadedHistory(f) ==
    IF f.kind = "state" THEN f.request_history ELSE InitHistory

\* a consume that appends and never drops
PruneHistory_Keeping(h, t) == Append(h, t)

\* request_history after a consume at t: append, then drop entries that
\* are 24 hours old or older
PruneHistory(h, t) ==
    SelectSeq(Append(h, t), LAMBDA req_time : req_time > t - 24 * 60 * 60)

\* ------------------------------------------------------------------------
\* rate_limiter.py: UserRateLimiter.  A limiter is the record of its
\* fields and of its state file; each method gives what it returns and
\* the limiter after the call.
\* ------------------------------------------------------------------------
\* the limiter of user id k, as it is now
Limiter(k) ==
    [buckets_15min   |-> buckets_15min[k],
     buckets_24hour  |-> buckets_24hour[k],
     request_history |-> request_history[k],
     state_file      |-> state_file[k]]

\* UserRateLimiter(k) built at t over the state file f
NewLimiter(f, t) ==
    [buckets_15min   |-> LoadedBuckets15(f, t),
     buckets_24hour  |-> LoadedBuckets24(f, t),
     request_history |-> LoadedHistory(f),
     state_file      |-> f]

\* UserRateLimiter._save_state at t
Saved(lim, t) ==
    [lim EXCEPT !.state_file =
        SavedState(lim.buckets_15min, lim.buckets_24hour, lim.request_history, t)]

\* can_make_request taking a token from each bucket instead of none
can_make_request_Taking(lim, e, t) ==
    LET c15 == BucketConsume(lim.buckets_15min[e], 1, t)
        c24 == BucketConsume(lim.buckets_24hour[e], 1, t)
    IN  IF ~c15.ok
        THEN [ret |-> FALSE, lim |-> [lim EXCEPT !.buckets_15min[e] = c15.bucket]]
        ELSE [ret |-> c24.ok,
              lim |-> [lim EXCEPT !.buckets_15min[e] = c15.bucket,
                                  !.buckets_24hour[e] = c24.bucket]]

\* UserRateLimiter.can_make_request(e) at t
can_make_request(lim, e, t) ==
    LET c15 == BucketConsume(lim.buckets_15min[e], 0, t)
        c24 == BucketConsume(lim.buckets_24hour[e], 0, t)
    IN  IF ~c15.ok
        THEN [ret |-> FALSE, lim |-> [lim EXCEPT !.buckets_15min[e] = c15.bucket]]
        ELSE [ret |-> c24.ok,
              lim |-> [lim EXCEPT !.buckets_15min[e] = c15.bucket,
                                  !.buckets_24hour[e] = c24.bucket]]

\* UserRateLimiter.consume_request(e) at t
consume_request(lim, e, t) ==
    LET consumed_15min  == BucketConsume(lim.buckets_15min[e], 1, t)
        consumed_24hour == BucketConsume(lim.buckets_24hour[e], 1, t)
        taken == [lim EXCEPT !.buckets_15min[e] = consumed_15min.bucket,
                             !.buckets_24hour[e] = consumed_24hour.bucket]
    IN  IF consumed_15min.ok /\ consumed_24hour.ok
        THEN [ret |-> TRUE,
              lim |-> Saved([taken EXCEPT !.request_history[e] = PruneHistory(@, t)], t)]
        ELSE [ret |-> FALSE, lim |-> taken]

\* The values handle_429_error receives as reset_time: None, a UNIX
\* timestamp (int), or the text of the x-rate-limit-reset header
ResetTimes == {"None", "int", "str"}

\* the timestamp an int reset_time stands for: ResetAfter seconds after
\* the call
ResetAfter == 10 * 60

\* UserRateLimiter.handle_429_error(e, reset_time) at t.  A header text is
\* truthy and `reset_time - now` raises TypeError on it, before _save_state.
handle_429_error(lim, e, reset_time, t) ==
    LET zeroed == [lim EXCEPT !.buckets_15min[e].tokens = 0]
    IN  IF reset_time = "str"
        THEN [raised |-> TRUE,  lim |-> zeroed]
        ELSE [raised |-> FALSE, lim |-> Saved(zeroed, t)]

\* UserRateLimiter.get_usage_stats at t: get_available_tokens and
\* time_until_token_available refill every bucket of the limiter
get_usage_stats(lim, t) ==
    [lim EXCEPT
        !.buckets_15min  = [e \in APIEndpoint |-> Refill(lim.buckets_15min[e], t)],
        !.buckets_24hour = [e \in APIEndpoint |-> Refill(lim.buckets_24hour[e], t)]]

\* the limiter of k becomes lim
SetLimiter(k, lim) ==
    /\ buckets_15min' = [buckets_15min EXCEPT ![k] = lim.buckets_15min]
    /\ buckets_24hour' = [buckets_24hour EXCEPT ![k] = lim.buckets_24hour]
    /\ request_history' = [request_history EXCEPT ![k] = lim.request_history]
    /\ state_file' = [state_file EXCEPT ![k] = lim.state_file]

NoOp ==
    [op |-> "none", user |-> "", endpoint |-> "", ret |-> FALSE, raised |-> FALSE,
     reset |-> "None", at |-> 0]

Returned(op, k, e, ret, raised) ==
    [op |-> op, user |-> k, endpoint |-> e, ret |-> ret, raised |-> raised,
     reset |-> "None", at |-> now]

\* ------------------------------------------------------------------------
\* twitter_client.py: TwitterClient
\* ------------------------------------------------------------------------
Tenants == {"u1", "u2"}

TweetIds == {"p1", "p2"}

\* datetime.now().date() and datetime.now().hour at clock value t
today(t) == t \div (24 * 60 * 60)

hour(t) == (t % (24 * 60 * 60)) \div (60 * 60)

NoClient ==
    [built |-> FALSE, user_id |-> "", available |-> FALSE,
     automation_stats |-> [likes_today |-> 0, retweets_today |-> 0, last_reset |-> 0]]

\* TwitterClient(user_id) built at t; is_available() is `client is not None`,
\* and _initialize_clients makes the client only when every key is present
NewTwitterClient(user_id, keys, t) ==
    [built |-> TRUE, user_id |-> user_id, available |-> keys,
     automation_stats |->
        [likes_today |-> 0, retweets_today |-> 0, last_reset |-> today(t)]]

\* TwitterClient._reset_daily_stats at t
client_reset_daily_stats(c, t) ==
    IF c.automation_stats.last_reset # today(t)
    THEN [c EXCEPT !.automation_stats =
            [likes_today |-> 0, retweets_today |-> 0, last_reset |-> today(t)]]
    ELSE c

\* What the X API does with a call: "ok" the action is done, "rejected" a
\* response without the liked / retweeted flag (or without data), "429"
\* TooManyRequests without an x-rate-limit-reset header, "429_reset"
\* TooManyRequests with that header, "error" Forbidden or another exception
ApiOutcomes == {"ok", "rejected", "429", "429_reset", "error"}

\* the seconds TwitterClient._add_human_delay(min, max) sleeps at least:
\* (2, 6) before a like, (5, 12) before a retweet
ClientDelays(e) == IF e = "like" THEN {2} ELSE {5}

\* what a client method hands back: the client and the limiter after the
\* call, the clock when it returns, and what happened inside
Outcome(c, lim, t, success, called, allowed, consumed, raised) ==
    [client |-> c, lim |-> lim, at |-> t, success |-> success, called |-> called,
     allowed |-> allowed, consumed |-> consumed, raised |-> raised]

\* TwitterClient.like_tweet / TwitterClient.retweet with safety_check=False,
\* on endpoint e, started at t, sleeping d, the X API answering o
engage(c, lim, e, o, d, t) ==
    IF ~c.available
    THEN Outcome(c, lim, t, FALSE, FALSE, FALSE, FALSE, FALSE)
    ELSE
    LET c1  == client_reset_daily_stats(c, t)
        can == can_make_request(lim, e, t)
        t1  == t + d
        con == consume_request(can.lim, e, t1)
        c2  == IF e = "like"
               THEN [c1 EXCEPT !.automation_stats.likes_today = @ + 1]
               ELSE [c1 EXCEPT !.automation_stats.retweets_today = @ + 1]
    IN  IF ~can.ret
        THEN Outcome(c1, can.lim, t, FALSE, FALSE, FALSE, FALSE, FALSE)
        ELSE CASE o = "ok" ->
                    Outcome(c2, get_usage_stats(con.lim, t1), t1,
                            TRUE, TRUE, TRUE, con.ret, FALSE)
               [] o = "rejected" ->
                    Outcome(c1, con.lim, t1, FALSE, TRUE, TRUE, con.ret, FALSE)
               [] o = "429" ->
                    Outcome(c1, handle_429_error(can.lim, e, "None", t1).lim, t1,
                            FALSE, TRUE, TRUE, FALSE, FALSE)
               [] o = "429_reset" ->
                    Outcome(c1, handle_429_error(can.lim, e, "str", t1).lim, t1,
                            FALSE, TRUE, TRUE, FALSE, TRUE)
               [] OTHER ->
                    Outcome(c1, can.lim, t1, FALSE, TRUE, TRUE, FALSE, FALSE)

like_tweet(c, lim, o, d, t) == engage(c, lim, "like", o, d, t)

retweet(c, lim, o, d, t) == engage(c, lim, "retweet", o, d, t)

\* TwitterClient.get_tweet_liking_users ("get_liking_users") and
\* TwitterClient.get_user_recent_tweets ("get_tweets") at t; success is a
\* non-empty list.  A TypeError raised by handle_429_error leaves the method.
fetch(c, lim, e, o, t) ==
    IF ~c.available
    THEN Outcome(c, lim, t, FALSE, FALSE, FALSE, FALSE, FALSE)
    ELSE
    LET can == can_make_request(lim, e, t)
        con == consume_request(can.lim, e, t)
    IN  IF ~can.ret
        THEN Outcome(c, can.lim, t, FALSE, FALSE, FALSE, FALSE, FALSE)
        ELSE CASE o \in {"ok", "rejected"} ->
                    Outcome(c, con.lim, t, o = "ok", TRUE, TRUE, con.ret, FALSE)
               [] o = "429" ->
                    Outcome(c, handle_429_error(can.lim, e, "None", t).lim, t,
                            FALSE, TRUE, TRUE, FALSE, FALSE)
               [] o = "429_reset" ->
                    Outcome(c, handle_429_error(can.lim, e, "str", t).lim, t,
                            FALSE, TRUE, TRUE, FALSE, TRUE)
               [] OTHER ->
                    Outcome(c, can.lim, t, FALSE, TRUE, TRUE, FALSE, FALSE)

get_tweet_liking_users(c, lim, o, t) == fetch(c, lim, "get_liking_users", o, t)

get_user_recent_tweets(c, lim, o, t) == fetch(c, lim, "get_tweets", o, t)

FetchEndpoints == {"get_liking_users", "get_tweets"}

\* ------------------------------------------------------------------------
\* action_executor.py: EngagementAutomationExecutor
\* ------------------------------------------------------------------------
\* the settings _load_user_settings falls back to
DefaultSettings ==
    [max_daily_actions    |-> 30,
     auto_like_enabled    |-> TRUE,
     auto_retweet_enabled |-> TRUE,
     min_delay_minutes    |-> 2,
     max_delay_minutes    |-> 15,
     active_hours         |-> [start |-> 8, end |-> 22],
     min_engagement_score |-> 60]

\* the settings.json files of a tenant: a small daily quota, and possibly
\* one of the two actions switched off
QuotaSettings == [DefaultSettings EXCEPT !.max_daily_actions = MaxDailyLimit]

SettingsFiles ==
    {QuotaSettings,
     [QuotaSettings EXCEPT !.auto_like_enabled = FALSE],
     [QuotaSettings EXCEPT !.auto_retweet_enabled = FALSE]}

\* analysis["recommended_action"] of a candidate
RecommendedActions == {"skip", "like", "retweet", "both"}

\* the seconds EngagementAutomationExecutor._add_human_delay sleeps:
\* uniform between min_delay_minutes and max_delay_minutes
HumanDelays(settings) ==
    {settings.min_delay_minutes * 60, settings.max_delay_minutes * 60}

NoExecutor ==
    [built |-> FALSE, user_id |-> "", twitter_client |-> NoClient,
     execution_stats |->
        [total_executed |-> 0, likes_executed |-> 0, retweets_executed |-> 0,
         errors |-> 0, daily_count |-> 0, last_reset |-> 0],
     settings |-> DefaultSettings]

\* EngagementAutomationExecutor(user_id) built at t: credentials is None and
\* is handed to TwitterClient as its user_id.  The executor is modelled with
\* its PostAnalyzer in place.  As written, __init__ builds it with
\* PostAnalyzer(self.groq_client), whose own __init__ calls TwitterClient()
\* without a user_id (post_analyzer.py:46) and raises TypeError, so the
\* constructor does not return until the analyzer is handed a client.
NewExecutor(user_id, keys, settings, t) ==
    [built |-> TRUE, user_id |-> user_id,
     twitter_client |-> NewTwitterClient("None", keys, t),
     execution_stats |->
        [total_executed |-> 0, likes_executed |-> 0, retweets_executed |-> 0,
         errors |-> 0, daily_count |-> 0, last_reset |-> today(t)],
     settings |-> settings]

\* EngagementAutomationExecutor._reset_daily_stats at t
reset_daily_stats(x, t) ==
    IF x.execution_stats.last_reset # today(t)
    THEN [x EXCEPT !.execution_stats.daily_count = 0,
                   !.execution_stats.last_reset = today(t)]
    ELSE x

\* EngagementAutomationExecutor.is_available at t: what it returns and the
\* executor after the call
is_available(x, t) ==
    IF ~x.twitter_client.available
    THEN [ret |-> FALSE, executor |-> x]
    ELSE LET x1 == reset_daily_stats(x, t)
         IN  [ret |-> /\ x1.execution_stats.daily_count < x1.settings.max_daily_actions
                      /\ x1.settings.active_hours.start <= hour(t)
                      /\ hour(t) <= x1.settings.active_hours.end,
              executor |-> x1]

\* EngagementAutomationExecutor._update_execution_stats(action_type, True) at t
update_execution_stats(x, action_type, t) ==
    LET x1 == reset_daily_stats(x, t)
    IN  [x1 EXCEPT
            !.execution_stats.total_executed = @ + 1,
            !.execution_stats.daily_count = @ + 1,
            !.execution_stats.likes_executed =
                IF action_type = "like" THEN @ + 1 ELSE @,
            !.execution_stats.retweets_executed =
                IF action_type = "retweet" THEN @ + 1 ELSE @]

\* the newest n entries of a history list
Latest(h, n) == IF Len(h) > n THEN SubSeq(h, Len(h) - n + 1, Len(h)) ELSE h

\* EngagementAutomationExecutor._save_execution_record: the history file
\* after the record of a successful action is appended
save_execution_record(h, action, tweet_id, t) ==
    Latest(Append(h, [action |-> action, tweet_id |-> tweet_id, timestamp |-> t,
                      success |-> TRUE]), 200)

\* EngagementAutomationExecutor._save_execution_batch_record
save_execution_batch_record(h, results, t) ==
    Latest(Append(h, [timestamp |-> t,
                      total_actions |-> Len(results),
                      successful_actions |->
                          Cardinality({j \in 1..Len(results) : results[j].success})]),
           50)

NoSession ==
    [pc |-> "idle", n |-> 0, i |-> 0, results |-> << >>, successful_actions |-> 0,
     ret |-> "none"]

NoStep ==
    [op |-> "none", user |-> "", id |-> "", endpoint |-> "", tweet_id |-> "",
     action |-> "", called |-> FALSE, allowed |-> FALSE, consumed |-> FALSE,
     success |-> FALSE, raised |-> FALSE, slept |-> 0, at |-> 0]

\* no client, no executor and no session yet
NothingBuilt ==
    /\ twitter_clients = [k \in UserIds |-> NoClient]
    /\ executors = [u \in Tenants |-> NoExecutor]
    /\ sessions = [u \in Tenants |-> NoSession]
    /\ engagement_history = [u \in Tenants |-> << >>]
    /\ batch_history = [u \in Tenants |-> << >>]
    /\ apiCalls = [k \in UserIds |-> [e \in APIEndpoint |-> 0]]
    /\ admitted = [k \in UserIds |-> [e \in APIEndpoint |-> 0]]
    /\ dispatched = 0
    /\ built = 0
    /\ lastStep = NoStep

\* ------------------------------------------------------------------------
\* blacklist_service.py: BlacklistService
\* ------------------------------------------------------------------------
\* the X accounts that engage with a tweet
Accounts == {"a1", "a2"}

\* the accounts the X API lists as having liked, and as having retweeted,
\* the tweet
LikingUsers == {{"a1"}, {"a1", "a2"}}
RetweetingUsers == {{"a2"}}

\* the public methods of BlacklistService
BlacklistServiceMethods ==
    {"add_user_to_blacklist", "add_keyword_to_blacklist", "add_domain_to_blacklist",
     "remove_from_blacklist", "is_user_blacklisted", "filter_content",
     "get_blacklist_summary", "update_settings", "export_blacklist",
     "import_blacklist"}

\* BlacklistService.add_user_to_blacklist(user_id, target_user): the "users"
\* keys of the file after the call
add_user_to_blacklist(users, target_user) == users \cup {target_user}

\* BlacklistService.is_user_blacklisted(user_id, target_user)
is_user_blacklisted(users, target_user) == target_user \in users

\* no analyze_engaging_users has been called
NoDiscovery ==
    [pc |-> "none", ret |-> "none", reason |-> "", engaging_users |-> {},
     analysis_results |-> << >>]

\* a coroutine of execute_selected_actions that is not inside a pass of its
\* loop: pc is "runnable", "client_delay" (inside time.sleep of
\* TwitterClient._add_human_delay), "in_call" (inside the tweepy call) or
\* "loop_delay" (suspended at `await asyncio.sleep` of the executor)
NoTask ==
    [pc |-> "runnable", tweet_id |-> "", action |-> "", wake |-> 0]

\* the coroutines of one tenant that call consume_request on its limiter
Workers == {"w1", "w2"}

\* a worker outside consume_request; inside, pc is "saving": the worker
\* stands at `await self._save_state()`
NoWorker == [pc |-> "idle", user |-> "", endpoint |-> ""]

\* ------------------------------------------------------------------------
\* models.py: ActionStatus, ActionQueue
\* ------------------------------------------------------------------------
\* the values of the enum ActionStatus
ActionStatus == {"pending", "executing", "completed", "failed", "cancelled"}

\* the primary keys of the rows that get queued
QueueIds == {"q1", "q2"}

\* no row under this key
NoRow == [status |-> "absent", retry_count |-> 0, max_retries |-> 0]

\* a row whose column defaults swap retry_count and max_retries
NewActionQueue_Swapped == [status |-> "pending", retry_count |-> 3, max_retries |-> 0]

\* ActionQueue(...) as the column defaults make it: status PENDING,
\* retry_count 0, max_retries 3
NewActionQueue == [status |-> "pending", retry_count |-> 0, max_retries |-> 3]

\* the ids of the accounts the X API can list for a tweet
EngagingAccounts == {"a1", "a2", "a3"}

\* the longest list of accounts the X API has for a tweet
MaxListed == 2

\* the lists of accounts that liked, or retweeted, a tweet, oldest first
ListedUsers == UNION {[1..n -> EngagingAccounts] : n \in 0..MaxListed}

\* settings["max_users_per_session"]
MaxUsers == 1..(MaxListed + 1)

\* the first n elements of a list: users[:n], and what the X API hands back
\* of a list when it is asked for max_results = n
Take(users, n) == IF Len(users) > n THEN SubSeq(users, 1, n) ELSE users

\* the keys of the dict all_users, in insertion order, after
\*     for user in users: if user.id not in all_users: all_users[user.id] = user
\* for the accounts of users from index i on (for the users who liked the
\* loop assigns without the test, which leaves the keys the same)
RECURSIVE AddUsers(_, _, _)
AddUsers(all_users, users, i) ==
    IF i > Len(users) THEN all_users
    ELSE AddUsers(IF \E j \in 1..Len(all_users) : all_users[j] = users[i]
                  THEN all_users
                  ELSE Append(all_users, users[i]),
                  users, i + 1)

\* a merge that appends the users who retweeted without the test
UniqueUsers_Appending(liking_users, retweeting_users, max_users) ==
    Take(AddUsers(<< >>, liking_users, 1) \o retweeting_users, max_users)

\* TwitterClient.get_engaging_users once both lists are fetched:
\* list(all_users.values()) cut to max_users
UniqueUsers(liking_users, retweeting_users, max_users) ==
    Take(AddUsers(AddUsers(<< >>, liking_users, 1), retweeting_users, 1), max_users)

\* no call of get_engaging_users
NoEngaging ==
    [pc |-> "none", liked |-> << >>, retweeted |-> << >>, max_users |-> 0,
     liking_users |-> << >>, retweeting_users |-> << >>, ret |-> << >>]

\* no blacklist.json, no analyze_engaging_users yet, the event loop idle,
\* and no row in action_queue
ServicesAtRest ==
    /\ blacklist = [u \in Tenants |-> {}]
    /\ discovery = [u \in Tenants |-> NoDiscovery]
    /\ loop_thread = "none"
    /\ tasks = [u \in Tenants |-> NoTask]
    /\ workers = [w \in Workers |-> NoWorker]
    /\ calls = << >>
    /\ action_queue = [q \in QueueIds |-> NoRow]

\* a double x as the pair [t, d] with x = (t * 2^56 + d) / (10 * 2^56): t
\* tenths and d units of 1 / (10 * 2^56)
Double(t, d) == [t |-> t, d |-> d]

\* the double nearest to the exact sum of the doubles x and y (IEEE 754,
\* ties to even), for sums between 0.25 and 2: doubles are spaced 2^-54
\* below 0.5, 2^-53 below 1 and 2^-52 from 1 on, that is 40, 80 and 160
\* units, and 2^56 leaves 16, 96 and 256 when divided by 80, 160 and 320
FloatAdd(x, y) ==
    LET t == x.t + y.t
        d == x.d + y.d
        spacing == IF t > 10 \/ (t = 10 /\ d >= 0) THEN 160
                   ELSE IF t > 5 \/ (t = 5 /\ d >= 0) THEN 80
                   ELSE 40
        pow == IF spacing = 160 THEN 256 ELSE IF spacing = 80 THEN 96 ELSE 16
        q == (pow * t + d) % (2 * spacing)
        r == q % spacing
    IN  IF 2 * r < spacing \/ (2 * r = spacing /\ q < spacing)
        THEN Double(t, d - r)
        ELSE Double(t, d + spacing - r)

\* x < y for doubles
FloatLess(x, y) == x.t < y.t \/ (x.t = y.t /\ x.d < y.d)

\* max(0.0, min(1.0, x))
Clamp01(x) ==
    LET m == IF FloatLess(x, Double(10, 0)) THEN x ELSE Double(10, 0)
    IN  IF FloatLess(Double(0, 0), m) THEN m ELSE Double(0, 0)

\* the largest score _calculate_like_score and _calculate_retweet_score return
MaxScore == 100

\* the safety_check dicts handed to _calculate_confidence: with "safe" True
\* or False, or without the key
SafetyChecks ==
    {[safe |-> TRUE, reason |-> ""], [safe |-> FALSE, reason |-> ""],
     [reason |-> "error"]}

\* safety_check.get("safe", False)
GetSafe(safety_check) ==
    IF "safe" \in DOMAIN safety_check THEN safety_check.safe ELSE FALSE

\* a _calculate_confidence whose first test is `max_score > 80`
calculate_confidence_Above(like_score, retweet_score, safety_check) ==
    LET max_score == IF like_score >= retweet_score THEN like_score ELSE retweet_score
        base == IF max_score > 80 THEN FloatAdd(Double(7, -32), Double(2, 8))
                ELSE IF max_score <= 30 THEN FloatAdd(Double(7, -32), Double(1, 4))
                ELSE Double(7, -32)
    IN  Clamp01(IF GetSafe(safety_check) THEN FloatAdd(base, Double(1, 4))
                ELSE FloatAdd(base, Double(-2, -8)))

\* PostAnalyzer._calculate_confidence: the doubles 0.7, 0.2 and 0.1 are
\* Double(7, -32), Double(2, 8) and Double(1, 4)
calculate_confidence(like_score, retweet_score, safety_check) ==
    LET max_score == IF like_score >= retweet_score THEN like_score ELSE retweet_score
        base == IF max_score >= 80 THEN FloatAdd(Double(7, -32), Double(2, 8))
                ELSE IF max_score <= 30 THEN FloatAdd(Double(7, -32), Double(1, 4))
                ELSE Double(7, -32)
    IN  Clamp01(IF GetSafe(safety_check) THEN FloatAdd(base, Double(1, 4))
                ELSE FloatAdd(base, Double(-2, -8)))

\* no call of _calculate_confidence
NoConfidence ==
    [pc |-> "none", like_score |-> 0, retweet_score |-> 0,
     safety_check |-> [reason |-> ""], ret |-> Double(0, 0)]

\* the requests that open a secure session, and the session ids they come
\* with; TwitterClient(session_id, api_keys) asks the limiter manager for
\* the limiter of that id
Requests == {"r1", "r2"}
SessionIds == {"u1", "u2"}

\* no request has opened a secure session
NoSecureSession ==
    [pc |-> "none", session_id |-> "", twitter_client |-> "None", exc |-> "none"]

NoServices ==
    /\ ServicesAtRest
    /\ engaging = NoEngaging
    /\ confidence = NoConfidence
    /\ active_sessions = [sid \in {} |-> NoClient]
    /\ secure_sessions = [r \in Requests |-> NoSecureSession]

\* ------------------------------------------------------------------------
\* post_analyzer.py: PostAnalyzer
\* ------------------------------------------------------------------------
\* _calculate_like_score and _calculate_retweet_score clamp to 0..100; the
\* values taken here lie on each side of every number a score is compared
\* with
Scores == {0, 55, 60, 65, 70, 72, 75, 100}

\* _assess_risk_level returns "低", "中" or "高"
RiskLevels == {"low", "medium", "high"}

\* settings["min_engagement_score"] of a tenant
MinEngagementScores == {50, 60, 80}

\* what asyncio.gather(..., return_exceptions=True) hands back for one task:
\* its value, or the exception it raised
TaskResults(values, none) ==
    {[raised |-> FALSE, value |-> v] : v \in values}
        \cup {[raised |-> TRUE, value |-> none]}

\* PostAnalyzer._determine_recommended_action with the score rules ahead of
\* the safety rule
determine_recommended_action_ScoresFirst(like_score, retweet_score, safe, risk_level) ==
    IF like_score >= 75 /\ retweet_score >= 75 THEN "both"
    ELSE IF like_score >= 70 THEN "like"
    ELSE IF retweet_score >= 70 THEN "retweet"
    ELSE IF ~safe \/ risk_level = "high" THEN "skip"
    ELSE IF like_score >= 60 \/ retweet_score >= 60
         THEN IF like_score > retweet_score THEN "like" ELSE "retweet"
    ELSE "skip"

\* PostAnalyzer._determine_recommended_action; safe is
\* safety_check.get("safe", False)
determine_recommended_action(like_score, retweet_score, safe, risk_level) ==
    IF ~safe \/ risk_level = "high" THEN "skip"
    ELSE IF like_score >= 75 /\ retweet_score >= 75 THEN "both"
    ELSE IF like_score >= 70 THEN "like"
    ELSE IF retweet_score >= 70 THEN "retweet"
    ELSE IF like_score >= 60 \/ retweet_score >= 60
         THEN IF like_score > retweet_score THEN "like" ELSE "retweet"
    ELSE "skip"

\* the dict analyze_for_like_and_retweet returns from its `except` branch
AnalysisError ==
    [error |-> TRUE, like_score |-> 0, retweet_score |-> 0, safety_check |-> FALSE,
     risk_level |-> "high", recommended_action |-> "skip"]

\* PostAnalyzer.analyze_for_like_and_retweet on the gathered task results
\* results[0], results[1], results[2] and results[4]:
\* a task that raised is replaced by 0, {"safe": False} or "高"
analyze_for_like_and_retweet(r0, r1, r2, r4) ==
    LET like_score    == IF r0.raised THEN 0 ELSE r0.value
        retweet_score == IF r1.raised THEN 0 ELSE r1.value
        safe          == IF r2.raised THEN FALSE ELSE r2.value
        risk_level    == IF r4.raised THEN "high" ELSE r4.value
    IN  [error |-> FALSE, like_score |-> like_score, retweet_score |-> retweet_score,
         safety_check |-> safe, risk_level |-> risk_level,
         recommended_action |->
             determine_recommended_action(like_score, retweet_score, safe, risk_level)]

\* no tweet is being analysed
NoAnalysis ==
    [pc |-> "none",
     like |-> [raised |-> FALSE, value |-> 0],
     retweet |-> [raised |-> FALSE, value |-> 0],
     safety |-> [raised |-> FALSE, value |-> FALSE],
     risk |-> [raised |-> FALSE, value |-> "low"],
     result |-> AnalysisError]

\* ------------------------------------------------------------------------
\* Rate limiter: initial state
\* ------------------------------------------------------------------------
InitLimiter ==
    /\ now = 0
    /\ ticks = 0
    /\ opCount = 0
    /\ crashes = 0
    /\ user_limiters = {}
    /\ buckets_15min = [k \in UserIds |-> InitBuckets15(0)]
    /\ buckets_24hour = [k \in UserIds |-> InitBuckets24(0)]
    /\ request_history = [k \in UserIds |-> InitHistory]
    /\ state_file \in [UserIds -> {AbsentFile, PriorRunFile}]
    /\ \A k \in UserIds \ SoloUsers : state_file[k] = AbsentFile
    /\ lastOp = NoOp
    /\ preCrash = [k \in UserIds |->
                     [valid |-> FALSE, consumed |-> FALSE,
                      buckets_15min |-> InitBuckets15(0),
                      buckets_24hour |-> InitBuckets24(0)]]
    /\ everConsumed = [k \in UserIds |-> state_file[k].kind = "state"]
    /\ env_credentials = TRUE
    /\ settings_file = [u \in Tenants |-> DefaultSettings]
    /\ NothingBuilt
    /\ analysis = NoAnalysis
    /\ NoServices

\* ------------------------------------------------------------------------
\* Rate limiter: operations
\* ------------------------------------------------------------------------
\* the clock advances by d seconds
Tick(d) ==
    /\ ticks < MaxTicks
    /\ now' = now + d
    /\ ticks' = ticks + 1
    /\ UNCHANGED << opCount, crashes, limiterVars, state_file, lastOp, preCrash,
                    everConsumed, sessionVars, serviceVars >>

\* a get_limiter that builds a new UserRateLimiter(k) from the state file
\* on every call
GetLimiter_Rebuilding(k) ==
    /\ user_limiters' = user_limiters \cup {k}
    /\ SetLimiter(k, NewLimiter(state_file[k], now))
    /\ UNCHANGED << now, ticks, opCount, crashes, lastOp, preCrash, everConsumed, sessionVars, serviceVars >>

\* RateLimiterManager.get_limiter(k) for an id without a limiter:
\* UserRateLimiter(k) is built and loads its state file
GetLimiter(k) ==
    /\ k \notin user_limiters
    /\ user_limiters' = user_limiters \cup {k}
    /\ SetLimiter(k, NewLimiter(state_file[k], now))
    /\ UNCHANGED << now, ticks, opCount, crashes, lastOp, preCrash, everConsumed, sessionVars, serviceVars >>

\* a call of can_make_request(e) on the limiter of k
CanMakeRequest(k, e) ==
    LET r == can_make_request(Limiter(k), e, now)
    IN  /\ k \in user_limiters
        /\ opCount < MaxOps
        /\ opCount' = opCount + 1
        /\ SetLimiter(k, r.lim)
        /\ lastOp' = Returned("can_make_request", k, e, r.ret, FALSE)
        /\ UNCHANGED << now, ticks, crashes, user_limiters, preCrash, everConsumed, sessionVars, serviceVars >>

\* a call of consume_request(e) on the limiter of k
ConsumeRequest(k, e) ==
    LET r == consume_request(Limiter(k), e, now)
    IN  /\ k \in user_limiters
        /\ opCount < MaxOps
        /\ opCount' = opCount + 1
        /\ SetLimiter(k, r.lim)
        /\ lastOp' = Returned("consume_request", k, e, r.ret, FALSE)
        /\ everConsumed' = [everConsumed EXCEPT ![k] = @ \/ r.ret]
        /\ UNCHANGED << now, ticks, crashes, user_limiters, preCrash, sessionVars, serviceVars >>

\* a call of handle_429_error(e, reset_time) on the limiter of k
Handle429Error(k, e, reset_time) ==
    LET r == handle_429_error(Limiter(k), e, reset_time, now)
    IN  /\ k \in user_limiters
        /\ opCount < MaxOps
        /\ opCount' = opCount + 1
        /\ SetLimiter(k, r.lim)
        /\ lastOp' = [Returned("handle_429_error", k, e, FALSE, r.raised)
                          EXCEPT !.reset = reset_time]
        /\ UNCHANGED << now, ticks, crashes, user_limiters, preCrash, everConsumed, sessionVars, serviceVars >>

\* a call of get_usage_stats on the limiter of k
GetUsageStats(k) ==
    /\ k \in user_limiters
    /\ opCount < MaxOps
    /\ opCount' = opCount + 1
    /\ SetLimiter(k, get_usage_stats(Limiter(k), now))
    /\ lastOp' = Returned("get_usage_stats", k, "", FALSE, FALSE)
    /\ UNCHANGED << now, ticks, crashes, user_limiters, preCrash, everConsumed, sessionVars, serviceVars >>

\* What a _save_state that fails leaves on disk: os.makedirs or open
\* raised and the file is as it was, or json.dump raised after open(..., 'w')
\* had truncated the file.  _save_state logs the exception and returns.
SaveFailures == {"before_open", "after_open"}
FailedSave(f, how) == IF how = "before_open" THEN f ELSE TornFile

\* a consume_request(e) on the limiter of k that consumes from both
\* buckets and whose _save_state fails
ConsumeRequestSaveFails(k, e, how) ==
    LET r == consume_request(Limiter(k), e, now)
    IN  /\ k \in user_limiters
        /\ opCount < MaxOps
        /\ r.ret
        /\ opCount' = opCount + 1
        /\ SetLimiter(k, [r.lim EXCEPT !.state_file = FailedSave(state_file[k], how)])
        /\ lastOp' = Returned("consume_request", k, e, TRUE, FALSE)
        /\ everConsumed' = [everConsumed EXCEPT ![k] = TRUE]
        /\ UNCHANGED << now, ticks, crashes, user_limiters, preCrash, sessionVars, serviceVars >>

\* a handle_429_error(e, reset_time) on the limiter of k whose _save_state
\* fails
Handle429ErrorSaveFails(k, e, reset_time, how) ==
    LET r == handle_429_error(Limiter(k), e, reset_time, now)
    IN  /\ k \in user_limiters
        /\ opCount < MaxOps
        /\ ~r.raised
        /\ opCount' = opCount + 1
        /\ SetLimiter(k, [r.lim EXCEPT !.state_file = FailedSave(state_file[k], how)])
        /\ lastOp' = [Returned("handle_429_error", k, e, FALSE, FALSE)
                          EXCEPT !.reset = reset_time]
        /\ UNCHANGED << now, ticks, crashes, user_limiters, preCrash, everConsumed,
                        sessionVars, serviceVars >>

\* what dies with the process: every limiter held by the manager
Snapshot(b15, b24) ==
    [k \in UserIds |->
        IF k \in user_limiters
        THEN [valid |-> TRUE, consumed |-> everConsumed[k],
              buckets_15min |-> b15[k], buckets_24hour |-> b24[k]]
        ELSE preCrash[k]]

ProcessExit(b15, b24) ==
    /\ crashes < MaxCrashes
    /\ crashes' = crashes + 1
    /\ preCrash' = Snapshot(b15, b24)
    /\ user_limiters' = {}
    /\ buckets_15min' = [k \in UserIds |-> InitBuckets15(0)]
    /\ buckets_24hour' = [k \in UserIds |-> InitBuckets24(0)]
    /\ request_history' = [k \in UserIds |-> InitHistory]
    /\ lastOp' = NoOp

\* the process dies between two calls; the files stay as they are
Crash ==
    /\ user_limiters # {}
    /\ ProcessExit(buckets_15min, buckets_24hour)
    /\ UNCHANGED << now, ticks, opCount, state_file, everConsumed, sessionVars, serviceVars >>

\* the process dies inside the _save_state of a successful
\* consume_request(e): open(state_file, 'w') has truncated the file and
\* json.dump has not finished
CrashDuringSave(k, e) ==
    LET r == consume_request(Limiter(k), e, now)
    IN  /\ k \in user_limiters
        /\ opCount < MaxOps
        /\ r.ret
        /\ opCount' = opCount + 1
        /\ state_file' = [state_file EXCEPT ![k] = TornFile]
        /\ ProcessExit([buckets_15min EXCEPT ![k] = r.lim.buckets_15min],
                       [buckets_24hour EXCEPT ![k] = r.lim.buckets_24hour])
        /\ UNCHANGED << now, ticks, everConsumed, sessionVars, serviceVars >>

Next ==
    \/ \E d \in Elapsed : Tick(d)
    \/ \E k \in SoloUsers : GetLimiter(k)
    \/ \E k \in SoloUsers, e \in ActionEndpoints : CanMakeRequest(k, e)
    \/ \E k \in SoloUsers, e \in ActionEndpoints : ConsumeRequest(k, e)
    \/ \E k \in SoloUsers, e \in ActionEndpoints, r \in ResetTimes :
          Handle429Error(k, e, r)
    \/ \E k \in SoloUsers : GetUsageStats(k)
    \/ Crash
    \/ \E k \in SoloUsers, e \in ActionEndpoints : CrashDuringSave(k, e)

Spec == InitLimiter /\ [][Next]_vars

\* the limiter of one user over a day and more: minutes or a whole day pass
\* between two calls of consume_request
HistoryElapsed == {600, window_24hour}

NextHistory ==
    \/ \E d \in HistoryElapsed : Tick(d)
    \/ \E k \in SoloUsers : GetLimiter(k)
    \/ \E k \in SoloUsers, e \in ActionEndpoints : ConsumeRequest(k, e)

SpecHistory == InitLimiter /\ [][NextHistory]_vars

\* the limiter on a disk that may refuse a write
NextFailingSaves ==
    \/ Next
    \/ \E k \in SoloUsers, e \in ActionEndpoints, how \in SaveFailures :
          ConsumeRequestSaveFails(k, e, how)
    \/ \E k \in SoloUsers, e \in ActionEndpoints, r \in ResetTimes, how \in SaveFailures :
          Handle429ErrorSaveFails(k, e, r, how)

SpecFailingSaves == InitLimiter /\ [][NextFailingSaves]_vars

\* ------------------------------------------------------------------------
\* Clients and executors: initial state and operations
\* ------------------------------------------------------------------------
\* the wall clock when the service starts: noon of day 0
StartOfService == 12 * 60 * 60

\* the time that passes between two requests
SessionElapsed == {12 * 60 * 60}

SessionStart ==
    /\ now = StartOfService
    /\ ticks = 0
    /\ opCount = 0
    /\ crashes = 0
    /\ user_limiters = {}
    /\ buckets_15min = [k \in UserIds |-> InitBuckets15(0)]
    /\ buckets_24hour = [k \in UserIds |-> InitBuckets24(0)]
    /\ request_history = [k \in UserIds |-> InitHistory]
    /\ state_file = [k \in UserIds |-> AbsentFile]
    /\ lastOp = NoOp
    /\ preCrash = [k \in UserIds |->
                     [valid |-> FALSE, consumed |-> FALSE,
                      buckets_15min |-> InitBuckets15(0),
                      buckets_24hour |-> InitBuckets24(0)]]
    /\ everConsumed = [k \in UserIds |-> FALSE]
    /\ env_credentials \in BOOLEAN
    /\ settings_file \in [Tenants -> SettingsFiles]
    /\ \A u \in Tenants \ SoloUsers : settings_file[u] = QuotaSettings
    /\ NothingBuilt
    /\ analysis = NoAnalysis

InitSession ==
    /\ SessionStart
    /\ NoServices

\* TwitterClient.__init__ asks the manager for the limiter of id k
WithLimiter(k) ==
    IF k \in user_limiters
    THEN UNCHANGED << limiterVars, state_file >>
    ELSE /\ user_limiters' = user_limiters \cup {k}
         /\ SetLimiter(k, NewLimiter(state_file[k], now))

\* a client step on the limiter of k and endpoint e handed back r
Counted(k, e, r) ==
    /\ apiCalls' = [apiCalls EXCEPT ![k][e] = @ + (IF r.called THEN 1 ELSE 0)]
    /\ admitted' = [admitted EXCEPT ![k][e] = @ + (IF r.consumed THEN 1 ELSE 0)]
    /\ everConsumed' = [everConsumed EXCEPT ![k] = @ \/ r.consumed]

\* create_twitter_client(k)
CreateTwitterClient(k) ==
    /\ built < MaxBuilt
    /\ ~twitter_clients[k].built
    /\ built' = built + 1
    /\ twitter_clients' =
          [twitter_clients EXCEPT ![k] = NewTwitterClient(k, env_credentials, now)]
    /\ WithLimiter(k)
    /\ lastStep' = [NoStep EXCEPT !.op = "create_twitter_client", !.id = k, !.at = now]
    /\ UNCHANGED << now, ticks, opCount, crashes, lastOp, preCrash, everConsumed,
                    env_credentials, settings_file, executors, sessions,
                    engagement_history, batch_history, apiCalls, admitted,
                    dispatched,
                    analysis, serviceVars >>

\* get_tweet_liking_users / get_user_recent_tweets on the client of k
Fetch(k, e, o) ==
    LET r == fetch(twitter_clients[k], Limiter(k), e, o, now)
    IN  /\ twitter_clients[k].built
        /\ opCount < MaxOps
        /\ opCount' = opCount + 1
        /\ SetLimiter(k, r.lim)
        /\ Counted(k, e, r)
        /\ lastStep' =
              [NoStep EXCEPT !.op = "fetch", !.id = k, !.endpoint = e,
                             !.called = r.called, !.allowed = r.allowed,
                             !.consumed = r.consumed, !.success = r.success,
                             !.raised = r.raised, !.at = now]
        /\ UNCHANGED << now, ticks, crashes, user_limiters, lastOp, preCrash,
                        env_credentials, settings_file, twitter_clients, executors,
                        sessions, engagement_history, batch_history, dispatched,
                        built,
                    analysis, serviceVars >>

\* like_tweet(p, safety_check=False) / retweet(p, safety_check=False) on
\* the client of k
Engage(k, e, p, o, d) ==
    LET r == engage(twitter_clients[k], Limiter(k), e, o, d, now)
    IN  /\ twitter_clients[k].built
        /\ opCount < MaxOps
        /\ opCount' = opCount + 1
        /\ now' = r.at
        /\ twitter_clients' = [twitter_clients EXCEPT ![k] = r.client]
        /\ SetLimiter(k, r.lim)
        /\ Counted(k, e, r)
        /\ lastStep' =
              [NoStep EXCEPT !.op = "engage", !.id = k, !.endpoint = e,
                             !.tweet_id = p, !.action = e,
                             !.called = r.called, !.allowed = r.allowed,
                             !.consumed = r.consumed, !.success = r.success,
                             !.raised = r.raised, !.at = now]
        /\ UNCHANGED << ticks, crashes, user_limiters, lastOp, preCrash,
                        env_credentials, settings_file, executors, sessions,
                        engagement_history, batch_history, dispatched, built,
                    analysis, serviceVars >>

\* EngagementAutomationExecutor(u): a request handler builds the executor,
\* the first one or a new one after the previous request has returned
CreateExecutor(u) ==
    /\ built < MaxBuilt
    /\ sessions[u].pc # "running"
    /\ executors[u].built => sessions[u].pc = "returned"
    /\ built' = built + 1
    /\ executors' =
          [executors EXCEPT ![u] = NewExecutor(u, env_credentials, settings_file[u], now)]
    /\ WithLimiter("None")
    /\ lastStep' = [NoStep EXCEPT !.op = "create_executor", !.user = u, !.id = "None",
                                  !.at = now]
    /\ UNCHANGED << now, ticks, opCount, crashes, lastOp, preCrash, everConsumed,
                    env_credentials, settings_file, twitter_clients, sessions,
                    engagement_history, batch_history, apiCalls, admitted,
                    dispatched,
                    analysis, serviceVars >>

\* execute_selected_actions(selected_analyses) is called with n candidates:
\* is_available() is asked once, before the loop
StartSession(u, n) ==
    LET a == is_available(executors[u], now)
    IN  /\ executors[u].built
        /\ sessions[u].pc # "running"
        /\ opCount < MaxOps
        /\ dispatched + n <= MaxCandidates
        /\ opCount' = opCount + 1
        /\ dispatched' = dispatched + n
        /\ executors' = [executors EXCEPT ![u] = a.executor]
        /\ sessions' =
              [sessions EXCEPT ![u] =
                  [NoSession EXCEPT !.pc = IF a.ret THEN "running" ELSE "returned",
                                    !.n = n,
                                    !.ret = IF a.ret THEN "none" ELSE "error"]]
        /\ lastStep' = [NoStep EXCEPT !.op = "start", !.user = u, !.success = a.ret,
                                      !.at = now]
        /\ UNCHANGED << now, ticks, crashes, limiterVars, state_file, lastOp, preCrash,
                        everConsumed, env_credentials, settings_file, twitter_clients,
                        engagement_history, batch_history, apiCalls, admitted, built,
                    analysis, serviceVars >>


\* a loop that takes the retweet branch for a "both" candidate
Dispatch_BothAsRetweet(action) == IF action = "like" THEN "like" ELSE "retweet"

\* the branch the loop takes for a recommended action other than skip:
\* _execute_retweet_action for "retweet", _execute_like_action for "like"
\* and for "both"
Dispatch(action) == IF action = "retweet" THEN "retweet" ELSE "like"

\* an executor that does not read its switches
ActionEnabled_Ignored(settings, e) == TRUE

\* the first lines of _execute_like_action and _execute_retweet_action:
\* settings.get("auto_like_enabled", True), settings.get("auto_retweet_enabled", True)
ActionEnabled(settings, e) ==
    IF e = "like" THEN settings.auto_like_enabled
                  ELSE settings.auto_retweet_enabled

\* one pass of the loop of execute_selected_actions: the candidate
\* (tweet_id, action) is the next element of selected_analyses, o is the X
\* API's answer, d the client's delay and h the executor's delay
LoopPass(u, tweet_id, action, o, d, h) ==
    LET x   == executors[u]
        k   == x.twitter_client.user_id
        e   == Dispatch(action)
        on  == ActionEnabled(x.settings, e)
        r   == IF e = "like" THEN like_tweet(x.twitter_client, Limiter(k), o, d, now)
                             ELSE retweet(x.twitter_client, Limiter(k), o, d, now)
        x1  == [x EXCEPT !.twitter_client = r.client]
        x2  == IF r.success THEN update_execution_stats(x1, e, r.at) ELSE x1
        entry(act, success, reason) ==
            [tweet_id |-> tweet_id, action |-> act, success |-> success,
             reason |-> reason]
        next(res, ok) ==
            [sessions EXCEPT ![u].i = @ + 1,
                             ![u].results = Append(@, res),
                             ![u].successful_actions = @ + (IF ok THEN 1 ELSE 0)]
        \* what the "error" text of the client's result says
        reason ==
            IF r.success THEN ""
            ELSE IF x.twitter_client.available /\ ~r.allowed THEN "rate_limited_local"
            ELSE IF r.called /\ o = "429" THEN "rate_limited_upstream"
            ELSE "failed"
        step(called, allowed, consumed, success, raised, slept) ==
            [op |-> "candidate", user |-> u, id |-> k, endpoint |-> e,
             tweet_id |-> tweet_id, action |-> action, called |-> called,
             allowed |-> allowed, consumed |-> consumed, success |-> success,
             raised |-> raised, slept |-> slept, at |-> now]
    IN  /\ sessions[u].pc = "running"
        /\ sessions[u].i < sessions[u].n
        /\ IF action = "skip"
           THEN \* recorded as skipped, `continue`
                /\ sessions' = next(entry("skipped", FALSE, "skip recommended"), FALSE)
                /\ lastStep' = [step(FALSE, FALSE, FALSE, FALSE, FALSE, 0)
                                   EXCEPT !.endpoint = ""]
                /\ UNCHANGED << now, limiterVars, state_file, executors,
                                engagement_history, apiCalls, admitted, everConsumed >>
           ELSE IF ~on
           THEN \* _execute_like_action / _execute_retweet_action return an
                \* error at once; the loop still sleeps
                /\ sessions' = next(entry(action, FALSE, "disabled"), FALSE)
                /\ now' = now + h
                /\ lastStep' = step(FALSE, FALSE, FALSE, FALSE, FALSE, h)
                /\ UNCHANGED << limiterVars, state_file, executors,
                                engagement_history, apiCalls, admitted, everConsumed >>
           ELSE /\ SetLimiter(k, r.lim)
                /\ Counted(k, e, r)
                /\ executors' = [executors EXCEPT ![u] = x2]
                /\ UNCHANGED user_limiters
                /\ IF r.raised
                   THEN \* the TypeError of handle_429_error reaches the loop's
                        \* `except`: an "error" entry, no sleep
                        /\ sessions' = next(entry("error", FALSE, "exception"), FALSE)
                        /\ now' = r.at
                        /\ lastStep' = step(r.called, r.allowed, r.consumed, FALSE,
                                            TRUE, 0)
                        /\ UNCHANGED engagement_history
                   ELSE /\ sessions' =
                              next(entry(action, r.success, reason), r.success)
                        /\ now' = r.at + h
                        /\ lastStep' = step(r.called, r.allowed, r.consumed, r.success,
                                            FALSE, h)
                        /\ engagement_history' =
                              IF r.success
                              THEN [engagement_history EXCEPT ![u] =
                                      save_execution_record(@, e, tweet_id, r.at)]
                              ELSE engagement_history
        /\ UNCHANGED << ticks, opCount, crashes, lastOp, preCrash, env_credentials,
                        settings_file, twitter_clients, batch_history, dispatched,
                        built >>

\* a loop without the `continue` of the skip branch: the candidate falls
\* through to the like branch
ProcessCandidate_SkipFallsThrough(u, tweet_id, action, o) ==
    /\ \E d \in ClientDelays(IF action = "retweet" THEN "retweet" ELSE "like"),
          h \in HumanDelays(executors[u].settings) :
             LoopPass(u, tweet_id, IF action = "skip" THEN "like" ELSE action, o, d, h)
    /\ UNCHANGED << analysis, serviceVars >>

ProcessCandidate(u, tweet_id, action, o) ==
    /\ \E d \in ClientDelays(Dispatch(action)),
          h \in HumanDelays(executors[u].settings) :
             LoopPass(u, tweet_id, action, o, d, h)
    /\ UNCHANGED << analysis, serviceVars >>

\* the loop is over: _save_execution_batch_record, then the result is returned
FinishSession(u) ==
    /\ sessions[u].pc = "running"
    /\ sessions[u].i = sessions[u].n
    /\ sessions' = [sessions EXCEPT ![u].pc = "returned", ![u].ret = "success"]
    /\ batch_history' =
          [batch_history EXCEPT ![u] =
              save_execution_batch_record(@, sessions[u].results, now)]
    /\ lastStep' = [NoStep EXCEPT !.op = "finish", !.user = u, !.success = TRUE,
                                  !.at = now]
    /\ UNCHANGED << now, ticks, opCount, crashes, limiterVars, state_file, lastOp,
                    preCrash, everConsumed, env_credentials, settings_file,
                    twitter_clients, executors, engagement_history, apiCalls,
                    admitted, dispatched, built,
                    analysis, serviceVars >>

\* time passes between two requests
Idle(d) ==
    /\ \A u \in Tenants : sessions[u].pc # "running"
    /\ Tick(d)

\* requests served by a client of the tenant's own id
NextClient ==
    \/ \E d \in Elapsed : Idle(d)
    \/ \E k \in SoloUsers : CreateTwitterClient(k)
    \/ \E k \in SoloUsers, e \in FetchEndpoints, o \in ApiOutcomes : Fetch(k, e, o)
    \/ \E k \in SoloUsers, e \in ActionEndpoints, p \in TweetIds, o \in ApiOutcomes :
          \E d \in ClientDelays(e) : Engage(k, e, p, o, d)

SpecClient == InitSession /\ [][NextClient]_vars

\* requests served by the executor
NextSession ==
    \/ \E d \in SessionElapsed : Idle(d)
    \/ \E u \in SoloUsers : CreateExecutor(u)
    \/ \E u \in SoloUsers, n \in 0..MaxCandidates : StartSession(u, n)
    \/ \E u \in SoloUsers, p \in TweetIds, a \in RecommendedActions, o \in ApiOutcomes :
          ProcessCandidate(u, p, a, o)
    \/ \E u \in SoloUsers : FinishSession(u)

SpecSession == InitSession /\ [][NextSession]_vars

\* one request after the other of one tenant whose credentials are set, with
\* no time passing between them: the candidates all point at one tweet
PassTweetIds == {"p1"}

InitPass ==
    /\ InitSession
    /\ env_credentials

\* the first request of the tenant builds the executor
FirstRequest(u) ==
    /\ ~executors[u].built
    /\ CreateExecutor(u)

NextPass ==
    \/ \E u \in SoloUsers : FirstRequest(u)
    \/ \E u \in SoloUsers, n \in 0..MaxCandidates : StartSession(u, n)
    \/ \E u \in SoloUsers, p \in PassTweetIds, a \in RecommendedActions,
          o \in ApiOutcomes : ProcessCandidate(u, p, a, o)
    \/ \E u \in SoloUsers : FinishSession(u)

SpecPass == InitPass /\ [][NextPass]_vars

\* ------------------------------------------------------------------------
\* Analysis of one candidate, then the session that acts on it
\* ------------------------------------------------------------------------
\* the service has started and the six analysis tasks of one tweet have been
\* gathered: results[0], results[1], results[2] and results[4]
InitDecision ==
    /\ now = StartOfService
    /\ ticks = 0
    /\ opCount = 0
    /\ crashes = 0
    /\ user_limiters = {}
    /\ buckets_15min = [k \in UserIds |-> InitBuckets15(0)]
    /\ buckets_24hour = [k \in UserIds |-> InitBuckets24(0)]
    /\ request_history = [k \in UserIds |-> InitHistory]
    /\ state_file = [k \in UserIds |-> AbsentFile]
    /\ lastOp = NoOp
    /\ preCrash = [k \in UserIds |->
                     [valid |-> FALSE, consumed |-> FALSE,
                      buckets_15min |-> InitBuckets15(0),
                      buckets_24hour |-> InitBuckets24(0)]]
    /\ everConsumed = [k \in UserIds |-> FALSE]
    /\ env_credentials = TRUE
    /\ \E m \in MinEngagementScores :
          settings_file = [u \in Tenants |->
                              [DefaultSettings EXCEPT !.min_engagement_score = m]]
    /\ NothingBuilt
    /\ \E r0 \in TaskResults(Scores, 0), r1 \in TaskResults(Scores, 0),
          r2 \in TaskResults(BOOLEAN, FALSE), r4 \in TaskResults(RiskLevels, "low") :
             analysis = [NoAnalysis EXCEPT !.pc = "gathered", !.like = r0,
                                           !.retweet = r1, !.safety = r2, !.risk = r4]
    /\ NoServices

\* analyze_for_like_and_retweet returns its analysis_result
AnalyzeForLikeAndRetweet ==
    /\ analysis.pc = "gathered"
    /\ analysis' = [analysis EXCEPT
                       !.pc = "analyzed",
                       !.result = analyze_for_like_and_retweet(
                                     analysis.like, analysis.retweet,
                                     analysis.safety, analysis.risk)]
    /\ UNCHANGED << now, ticks, opCount, crashes, limiterVars, state_file, lastOp,
                    preCrash, everConsumed, env_credentials, settings_file,
                    twitter_clients, executors, sessions, engagement_history,
                    batch_history, apiCalls, admitted, dispatched, built, lastStep,
                    serviceVars >>

\* a later step of analyze_for_like_and_retweet raises (_calculate_confidence,
\* _generate_ai_reasoning): the `except` branch returns the error dict
AnalysisFails ==
    /\ analysis.pc = "gathered"
    /\ analysis' = [analysis EXCEPT !.pc = "analyzed", !.result = AnalysisError]
    /\ UNCHANGED << now, ticks, opCount, crashes, limiterVars, state_file, lastOp,
                    preCrash, everConsumed, env_credentials, settings_file,
                    twitter_clients, executors, sessions, engagement_history,
                    batch_history, apiCalls, admitted, dispatched, built, lastStep,
                    serviceVars >>

\* the loop of execute_selected_actions reaches the analysed candidate and
\* acts on analysis["recommended_action"]
ProcessAnalysed(u, tweet_id, o) ==
    /\ analysis.pc = "analyzed"
    /\ \E d \in ClientDelays(IF analysis.result.recommended_action = "retweet"
                              THEN "retweet" ELSE "like"),
          h \in HumanDelays(executors[u].settings) :
             LoopPass(u, tweet_id, analysis.result.recommended_action, o, d, h)
    /\ analysis' = [analysis EXCEPT !.pc = "executed"]
    /\ UNCHANGED serviceVars

\* one tweet is analysed and handed to a session
NextDecision ==
    \/ AnalyzeForLikeAndRetweet
    \/ AnalysisFails
    \/ \E u \in SoloUsers : CreateExecutor(u)
    \/ \E u \in SoloUsers : StartSession(u, 1)
    \/ \E u \in SoloUsers, o \in ApiOutcomes : ProcessAnalysed(u, "p1", o)
    \/ \E u \in SoloUsers : FinishSession(u)

SpecDecision == InitDecision /\ [][NextDecision]_vars

\* ------------------------------------------------------------------------
\* Discovery: analyze_engaging_users and the tenant's blacklist
\* ------------------------------------------------------------------------
\* the tenant puts account a on the blacklist
AddUserToBlacklist(u, a) ==
    /\ a \notin blacklist[u]
    /\ blacklist' = [blacklist EXCEPT ![u] = add_user_to_blacklist(@, a)]
    /\ UNCHANGED << now, ticks, opCount, crashes, limiterVars, state_file, lastOp,
                    preCrash, everConsumed, sessionVars, discovery, loopVars,
                    workerVars, storeVars >>

\* analyze_engaging_users(tweet_url) on the executor of u.  valid_url: the
\* URL holds "/status/<id>"; o1 and liking are the X API's answer to
\* get_liking_users, o2 and retweeting its answer to get_retweeters.
\* get_engaging_users sleeps 1 s between the two calls and turns any
\* exception into an empty list.  The blacklist filter looks up
\* blacklist_service.is_blacklisted, which BlacklistService does not have:
\* the AttributeError reaches the outer `except`, and the statements after
\* the filter (shuffle, get_user_recent_tweets, analysis) are never reached.
AnalyzeEngagingUsers(u, valid_url, o1, liking, o2, retweeting) ==
    LET x    == executors[u]
        k    == x.twitter_client.user_id
        a    == is_available(x, now)
        r1   == fetch(a.executor.twitter_client, Limiter(k), "get_liking_users", o1, now)
        r2   == fetch(r1.client, r1.lim, "get_retweeters", o2, now + 1)
        last == IF r1.raised THEN r1 ELSE r2
        engaging_users ==
            IF r1.raised \/ r2.raised THEN {}
            ELSE (IF r1.success THEN liking ELSE {})
                    \cup (IF r2.success THEN retweeting ELSE {})
        returned(reason, users) ==
            [discovery EXCEPT ![u] =
                [NoDiscovery EXCEPT !.pc = "returned", !.ret = "error",
                                    !.reason = reason, !.engaging_users = users]]
    IN  /\ x.built
        /\ sessions[u].pc # "running"
        /\ opCount < MaxOps
        /\ opCount' = opCount + 1
        /\ executors' = [executors EXCEPT ![u] = a.executor]
        /\ IF ~a.ret
           THEN /\ discovery' = returned("unavailable", {})
                /\ UNCHANGED << now, limiterVars, state_file, apiCalls, admitted,
                                everConsumed >>
           ELSE IF ~valid_url
           THEN /\ discovery' = returned("invalid_url", {})
                /\ UNCHANGED << now, limiterVars, state_file, apiCalls, admitted,
                                everConsumed >>
           ELSE /\ now' = last.at
                /\ SetLimiter(k, last.lim)
                /\ UNCHANGED user_limiters
                /\ apiCalls' =
                      [apiCalls EXCEPT
                          ![k]["get_liking_users"] = @ + (IF r1.called THEN 1 ELSE 0),
                          ![k]["get_retweeters"] =
                              @ + (IF ~r1.raised /\ r2.called THEN 1 ELSE 0)]
                /\ admitted' =
                      [admitted EXCEPT
                          ![k]["get_liking_users"] = @ + (IF r1.consumed THEN 1 ELSE 0),
                          ![k]["get_retweeters"] =
                              @ + (IF ~r1.raised /\ r2.consumed THEN 1 ELSE 0)]
                /\ everConsumed' =
                      [everConsumed EXCEPT
                          ![k] = @ \/ r1.consumed \/ (~r1.raised /\ r2.consumed)]
                /\ discovery' =
                      IF engaging_users = {}
                      THEN returned("no_engaging_users", {})
                      ELSE IF "is_blacklisted" \notin BlacklistServiceMethods
                      THEN returned("exception", engaging_users)
                      ELSE returned("not_reached", engaging_users)
        /\ lastStep' = [NoStep EXCEPT !.op = "analyze_engaging_users", !.user = u,
                                      !.id = k, !.at = now]
        /\ UNCHANGED << ticks, crashes, lastOp, preCrash, env_credentials,
                        settings_file, twitter_clients, sessions, engagement_history,
                        batch_history, dispatched, built, analysis, blacklist,
                        loopVars, workerVars, storeVars >>

\* requests for an analysis, and changes of the blacklist
NextDiscovery ==
    \/ \E d \in SessionElapsed : Idle(d)
    \/ \E u \in SoloUsers : CreateExecutor(u)
    \/ \E u \in SoloUsers, a \in Accounts : AddUserToBlacklist(u, a)
    \/ \E u \in SoloUsers, valid_url \in BOOLEAN, o1 \in ApiOutcomes, o2 \in ApiOutcomes,
          liking \in LikingUsers, retweeting \in RetweetingUsers :
             AnalyzeEngagingUsers(u, valid_url, o1, liking, o2, retweeting)

SpecDiscovery == InitSession /\ [][NextDiscovery]_vars

\* ------------------------------------------------------------------------
\* One call of get_engaging_users on the client of a tenant
\* ------------------------------------------------------------------------
\* the service has started with credentials; a request is about to call
\* get_engaging_users(tweet_id, max_users) for a tweet that the accounts of
\* `liked` have liked and the accounts of `retweeted` have retweeted
InitEngaging ==
    /\ SessionStart
    /\ env_credentials
    /\ \A u \in Tenants : settings_file[u] = QuotaSettings
    /\ ServicesAtRest
    /\ \E liked \in ListedUsers, retweeted \in ListedUsers, max_users \in MaxUsers :
          engaging = [NoEngaging EXCEPT !.pc = "called", !.liked = liked,
                                        !.retweeted = retweeted,
                                        !.max_users = max_users]
    /\ confidence = NoConfidence
    /\ active_sessions = [sid \in {} |-> NoClient]
    /\ secure_sessions = [r \in Requests |-> NoSecureSession]

\* get_engaging_users on the client of k: get_tweet_liking_users, one second
\* of sleep, get_tweet_retweeting_users with max_users // 2, then the merge.
\* An exception of a getter (the TypeError of handle_429_error) is caught
\* and [] is returned
GetEngagingUsers(k, o1, o2) ==
    LET c    == twitter_clients[k]
        r1   == fetch(c, Limiter(k), "get_liking_users", o1, now)
        r2   == fetch(r1.client, r1.lim, "get_retweeters", o2, now + 1)
        last == IF r1.raised THEN r1 ELSE r2
        liking_users ==
            IF r1.success THEN Take(engaging.liked, Min(engaging.max_users, 100))
            ELSE << >>
        retweeting_users ==
            IF r2.success
            THEN Take(engaging.retweeted, Min(engaging.max_users \div 2, 100))
            ELSE << >>
    IN  /\ c.built
        /\ engaging.pc = "called"
        /\ now' = last.at
        /\ SetLimiter(k, last.lim)
        /\ UNCHANGED user_limiters
        /\ apiCalls' =
              [apiCalls EXCEPT
                  ![k]["get_liking_users"] = @ + (IF r1.called THEN 1 ELSE 0),
                  ![k]["get_retweeters"] =
                      @ + (IF ~r1.raised /\ r2.called THEN 1 ELSE 0)]
        /\ admitted' =
              [admitted EXCEPT
                  ![k]["get_liking_users"] = @ + (IF r1.consumed THEN 1 ELSE 0),
                  ![k]["get_retweeters"] =
                      @ + (IF ~r1.raised /\ r2.consumed THEN 1 ELSE 0)]
        /\ everConsumed' =
              [everConsumed EXCEPT
                  ![k] = @ \/ r1.consumed \/ (~r1.raised /\ r2.consumed)]
        /\ engaging' =
              IF r1.raised \/ r2.raised
              THEN [engaging EXCEPT !.pc = "returned", !.ret = << >>]
              ELSE [engaging EXCEPT
                       !.pc = "returned",
                       !.liking_users = liking_users,
                       !.retweeting_users = retweeting_users,
                       !.ret = UniqueUsers(liking_users, retweeting_users,
                                           engaging.max_users)]
        /\ lastStep' = [NoStep EXCEPT !.op = "get_engaging_users", !.id = k,
                                      !.at = now]
        /\ UNCHANGED << ticks, opCount, crashes, lastOp, preCrash, env_credentials,
                        settings_file, twitter_clients, executors, sessions,
                        engagement_history, batch_history, dispatched, built,
                        analysis, blacklist, discovery, loopVars, workerVars,
                        action_queue, confidence, active_sessions,
                        secure_sessions >>

NextEngaging ==
    \/ \E k \in SoloUsers : CreateTwitterClient(k)
    \/ \E k \in SoloUsers, o1 \in ApiOutcomes, o2 \in ApiOutcomes :
          GetEngagingUsers(k, o1, o2)

SpecEngaging == InitEngaging /\ [][NextEngaging]_vars

\* ------------------------------------------------------------------------
\* One call of _calculate_confidence
\* ------------------------------------------------------------------------
\* the analysis of a tweet has its two scores and its safety check and is
\* about to call _calculate_confidence
InitConfidence ==
    /\ SessionStart
    /\ env_credentials
    /\ \A u \in Tenants : settings_file[u] = QuotaSettings
    /\ ServicesAtRest
    /\ engaging = NoEngaging
    /\ \E like_score \in 0..MaxScore, retweet_score \in 0..MaxScore,
          safety_check \in SafetyChecks :
             confidence = [NoConfidence EXCEPT !.pc = "called",
                                               !.like_score = like_score,
                                               !.retweet_score = retweet_score,
                                               !.safety_check = safety_check]
    /\ active_sessions = [sid \in {} |-> NoClient]
    /\ secure_sessions = [r \in Requests |-> NoSecureSession]

CalculateConfidence ==
    /\ confidence.pc = "called"
    /\ confidence' =
          [confidence EXCEPT
              !.pc = "returned",
              !.ret = calculate_confidence(confidence.like_score,
                                           confidence.retweet_score,
                                           confidence.safety_check)]
    /\ UNCHANGED << now, ticks, opCount, crashes, limiterVars, state_file, lastOp,
                    preCrash, everConsumed, sessionVars, blacklist, discovery,
                    loopVars, workerVars, action_queue, engaging, active_sessions,
                    secure_sessions >>

NextConfidence == CalculateConfidence

SpecConfidence == InitConfidence /\ [][NextConfidence]_vars

\* ------------------------------------------------------------------------
\* secure_request_handler.py: SecureRequestHandler.secure_session
\* ------------------------------------------------------------------------
\* the `finally` of secure_session:
\*     if session_id in self.active_sessions: del self.active_sessions[session_id]
Cleanup(entries, session_id) ==
    [x \in DOMAIN entries \ {session_id} |-> entries[x]]

\* self.active_sessions[session_id] = {...}
WithEntry(entries, session_id, entry) ==
    [x \in DOMAIN entries \cup {session_id} |->
        IF x = session_id THEN entry ELSE entries[x]]

\* request r is inside the `async with` of a secure session of id session_id
IsOpen(r, session_id) ==
    /\ secure_sessions[r].pc = "open"
    /\ secure_sessions[r].session_id = session_id

SecureFrame ==
    UNCHANGED << now, ticks, crashes, lastOp, preCrash, everConsumed,
                 env_credentials, settings_file, twitter_clients, executors,
                 sessions, engagement_history, batch_history, apiCalls, admitted,
                 dispatched, built, analysis, blacklist, discovery, loopVars,
                 workerVars, action_queue, engaging, confidence >>

\* `async with self.secure_session(session_id, api_keys)` is entered by
\* request r.  The id is a string its caller hands in: the routes make it
\* of the user's id and datetime.now().timestamp() (main.py:659), and
\* secure_session does not look whether a session of that id is open.  With
\* keys that do not pass _validate_api_keys the ValueError runs through
\* `except` and `finally` and leaves the context at once
EnterSecureSession(r, session_id, valid) ==
    /\ secure_sessions[r].pc # "open"
    /\ opCount < MaxOps
    /\ opCount' = opCount + 1
    /\ IF valid
       THEN /\ WithLimiter(session_id)
            /\ active_sessions' =
                  WithEntry(active_sessions, session_id,
                            [start_time |-> now,
                             client |-> NewTwitterClient(session_id, TRUE, now),
                             status |-> "active"])
            /\ secure_sessions' =
                  [secure_sessions EXCEPT
                      ![r] = [pc |-> "open", session_id |-> session_id,
                              twitter_client |-> session_id, exc |-> "none"]]
       ELSE /\ active_sessions' = Cleanup(active_sessions, session_id)
            /\ secure_sessions' =
                  [secure_sessions EXCEPT
                      ![r] = [pc |-> "closed", session_id |-> session_id,
                              twitter_client |-> "None", exc |-> "ValueError"]]
            /\ UNCHANGED << limiterVars, state_file >>
    /\ lastStep' = [NoStep EXCEPT !.op = "enter_secure_session", !.user = r,
                                  !.id = session_id, !.success = valid, !.at = now]
    /\ SecureFrame

\* the body of the `async with` of request r is left: it returns, it raises,
\* or the task is cancelled while it waits; each way runs the `finally`
ExitSecureSession(r, how) ==
    /\ secure_sessions[r].pc = "open"
    /\ active_sessions' = Cleanup(active_sessions, secure_sessions[r].session_id)
    /\ secure_sessions' =
          [secure_sessions EXCEPT ![r].pc = "closed", ![r].twitter_client = "None",
                                  ![r].exc = how]
    /\ lastStep' = [NoStep EXCEPT !.op = "exit_secure_session", !.user = r,
                                  !.id = secure_sessions[r].session_id,
                                  !.success = (how = "none"), !.at = now]
    /\ UNCHANGED << opCount, limiterVars, state_file >>
    /\ SecureFrame

NextSecure ==
    \/ \E r \in Requests, session_id \in SessionIds, valid \in BOOLEAN :
          EnterSecureSession(r, session_id, valid)
    \/ \E r \in Requests, how \in {"none", "Exception", "CancelledError"} :
          ExitSecureSession(r, how)

\* the service has started with credentials and nothing is in flight
InitSecure ==
    /\ InitSession
    /\ env_credentials
    /\ \A u \in Tenants : settings_file[u] = QuotaSettings

SpecSecure == InitSecure /\ [][NextSecure]_vars

\* ------------------------------------------------------------------------
\* The event loop: the sessions of the tenants on the one thread of asyncio
\* ------------------------------------------------------------------------
\* the candidate gets as far as the client's _add_human_delay: the action
\* is not "skip", it is switched on, the client has its keys, and
\* can_make_request admits it
ReachesClient(u, action) ==
    LET x  == executors[u]
        e  == IF action = "retweet" THEN "retweet" ELSE "like"
        on == IF e = "like" THEN x.settings.auto_like_enabled
                            ELSE x.settings.auto_retweet_enabled
    IN  /\ action # "skip"
        /\ on
        /\ x.twitter_client.available
        /\ can_make_request(Limiter(x.twitter_client.user_id), e, now).ret

\* a request handler runs when no coroutine holds the thread
CreateExecutorOnLoop(u) ==
    /\ loop_thread = "none"
    /\ CreateExecutor(u)

StartSessionOnLoop(u, n) ==
    /\ loop_thread = "none"
    /\ StartSession(u, n)

\* the loop of u takes its next candidate and runs into time.sleep(d) of
\* TwitterClient._add_human_delay: the coroutine does not give the thread
\* back while it sleeps
EnterClientDelay(u, tweet_id, action) ==
    /\ loop_thread = "none"
    /\ sessions[u].pc = "running"
    /\ sessions[u].i < sessions[u].n
    /\ tasks[u].pc = "runnable"
    /\ ReachesClient(u, action)
    /\ \E d \in ClientDelays(IF action = "retweet" THEN "retweet" ELSE "like") :
          tasks' = [tasks EXCEPT ![u] = [pc |-> "client_delay", tweet_id |-> tweet_id,
                                         action |-> action, wake |-> now + d]]
    /\ loop_thread' = u
    /\ UNCHANGED << now, ticks, opCount, crashes, limiterVars, state_file, lastOp,
                    preCrash, everConsumed, sessionVars, blacklist, discovery,
                    workerVars, storeVars >>

\* time.sleep returns: the call to the X API, consume_request and the
\* records follow, and the coroutine is suspended at `await asyncio.sleep(h)`
\* of the executor's _add_human_delay, which gives the thread back.  The
\* TypeError of handle_429_error skips that sleep.
LeaveClientDelay(u, o) ==
    /\ tasks[u].pc = "client_delay"
    /\ loop_thread = u
    /\ \E h \in HumanDelays(executors[u].settings) :
          /\ LoopPass(u, tasks[u].tweet_id, tasks[u].action, o, tasks[u].wake - now, 0)
          /\ tasks' = [tasks EXCEPT ![u] =
                          IF o = "429_reset"
                          THEN NoTask
                          ELSE [NoTask EXCEPT !.pc = "loop_delay",
                                              !.wake = tasks[u].wake + h]]
    /\ loop_thread' = "none"
    /\ UNCHANGED << analysis, blacklist, discovery, workerVars, storeVars >>

\* time.sleep returns and the X API never answers self.client.like /
\* self.client.retweet: the tweepy client is built without a timeout and
\* the call is not awaited, so the coroutine stays inside it and keeps the
\* thread
CallNeverReturns(u) ==
    /\ tasks[u].pc = "client_delay"
    /\ loop_thread = u
    /\ tasks' = [tasks EXCEPT ![u].pc = "in_call"]
    /\ now' = tasks[u].wake
    /\ UNCHANGED << ticks, opCount, crashes, limiterVars, state_file, lastOp,
                    preCrash, everConsumed, sessionVars, blacklist, discovery,
                    loop_thread, workerVars, storeVars >>

\* a candidate that never reaches the client: recorded as skipped (no
\* sleep), or as failed, followed by `await asyncio.sleep(h)`
PassWithoutCall(u, tweet_id, action) ==
    /\ loop_thread = "none"
    /\ tasks[u].pc = "runnable"
    /\ ~ReachesClient(u, action)
    /\ \E h \in HumanDelays(executors[u].settings) :
          /\ LoopPass(u, tweet_id, action, "ok", 0, 0)
          /\ tasks' = [tasks EXCEPT ![u] =
                          IF action = "skip"
                          THEN NoTask
                          ELSE [NoTask EXCEPT !.pc = "loop_delay", !.wake = now + h]]
    /\ UNCHANGED << loop_thread, analysis, blacklist, discovery, workerVars, storeVars >>

\* the event loop has nothing to run and waits for the next timer
WaitForTimer ==
    LET timers == {tasks[u].wake : u \in {v \in Tenants : tasks[v].pc = "loop_delay"}}
        due    == {t \in timers : t > now}
    IN  /\ loop_thread = "none"
        /\ due # {}
        /\ now' = CHOOSE t \in due : \A t2 \in due : t <= t2
        /\ UNCHANGED << ticks, opCount, crashes, limiterVars, state_file, lastOp,
                        preCrash, everConsumed, sessionVars, serviceVars >>

\* asyncio.sleep(h) is over: the coroutine goes on with the next pass
LoopDelayEnds(u) ==
    /\ loop_thread = "none"
    /\ tasks[u].pc = "loop_delay"
    /\ now >= tasks[u].wake
    /\ tasks' = [tasks EXCEPT ![u] = NoTask]
    /\ UNCHANGED << now, ticks, opCount, crashes, limiterVars, state_file, lastOp,
                    preCrash, everConsumed, sessionVars, blacklist, discovery,
                    loop_thread, workerVars, storeVars >>

\* the task that runs execute_selected_actions of u is cancelled: asyncio
\* raises CancelledError at the `await` the coroutine is suspended at, the
\* asyncio.sleep of _add_human_delay (time.sleep and the tweepy call do
\* not suspend).  CancelledError is a BaseException: neither `except
\* Exception` of execute_selected_actions catches it, so the coroutine ends
\* without _save_execution_batch_record and without a result.
Cancel(u) ==
    /\ loop_thread = "none"
    /\ sessions[u].pc = "running"
    /\ tasks[u].pc = "loop_delay"
    /\ sessions' = [sessions EXCEPT ![u].pc = "cancelled", ![u].ret = "cancelled"]
    /\ tasks' = [tasks EXCEPT ![u] = NoTask]
    /\ lastStep' = [NoStep EXCEPT !.op = "cancel", !.user = u, !.at = now]
    /\ UNCHANGED << now, ticks, opCount, crashes, limiterVars, state_file, lastOp,
                    preCrash, everConsumed, env_credentials, settings_file,
                    twitter_clients, executors, engagement_history, batch_history,
                    apiCalls, admitted, dispatched, built, analysis, blacklist,
                    discovery, loop_thread, workerVars, storeVars >>

FinishSessionOnLoop(u) ==
    /\ loop_thread = "none"
    /\ tasks[u].pc = "runnable"
    /\ FinishSession(u)

\* the tweet the candidates of these sessions are about
LoopTweetIds == {"p1"}

\* the sessions of all tenants, interleaved where the coroutines suspend
NextLoop ==
    \/ \E u \in Tenants : CreateExecutorOnLoop(u)
    \/ \E u \in Tenants, n \in 1..MaxCandidates : StartSessionOnLoop(u, n)
    \/ \E u \in Tenants, p \in LoopTweetIds, a \in RecommendedActions :
          EnterClientDelay(u, p, a)
    \/ \E u \in Tenants, o \in ApiOutcomes : LeaveClientDelay(u, o)
    \/ \E u \in Tenants : CallNeverReturns(u)
    \/ \E u \in Tenants, p \in LoopTweetIds, a \in RecommendedActions :
          PassWithoutCall(u, p, a)
    \/ WaitForTimer
    \/ \E u \in Tenants : LoopDelayEnds(u)
    \/ \E u \in Tenants : FinishSessionOnLoop(u)

\* the service with its API keys set and every tenant on the same settings
InitLoop ==
    /\ InitSession
    /\ env_credentials
    /\ \A u \in Tenants : settings_file[u] = QuotaSettings

SpecLoop == InitLoop /\ [][NextLoop]_vars

\* the sessions of one tenant alone on the event loop
NextLoopSolo ==
    \/ \E u \in SoloUsers : CreateExecutorOnLoop(u)
    \/ \E u \in SoloUsers, n \in 1..MaxCandidates : StartSessionOnLoop(u, n)
    \/ \E u \in SoloUsers, p \in LoopTweetIds, a \in RecommendedActions :
          EnterClientDelay(u, p, a)
    \/ \E u \in SoloUsers, o \in ApiOutcomes : LeaveClientDelay(u, o)
    \/ \E u \in SoloUsers : CallNeverReturns(u)
    \/ \E u \in SoloUsers, p \in LoopTweetIds, a \in RecommendedActions :
          PassWithoutCall(u, p, a)
    \/ WaitForTimer
    \/ \E u \in SoloUsers : LoopDelayEnds(u)
    \/ \E u \in SoloUsers : Cancel(u)
    \/ \E u \in SoloUsers : FinishSessionOnLoop(u)

SpecLoopSolo == InitLoop /\ [][NextLoopSolo]_vars

\* the loop of u takes up its next candidate
BeginPass(u) ==
    \E p \in LoopTweetIds, a \in RecommendedActions :
        EnterClientDelay(u, p, a) \/ PassWithoutCall(u, p, a)

\* the event loop runs a coroutine whenever one can run, its timers fire,
\* and time.sleep returns (into an answer of the X API, or into a call
\* that never returns)
SpecLoopFair ==
    /\ SpecLoopSolo
    /\ \A u \in SoloUsers :
          /\ WF_vars(BeginPass(u))
          /\ WF_vars(LoopDelayEnds(u))
          /\ WF_vars(FinishSessionOnLoop(u))
          /\ []<>(tasks[u].pc # "client_delay")
    /\ WF_vars(WaitForTimer)

\* ------------------------------------------------------------------------
\* Workers of one tenant on the limiter the manager holds for it
\* ------------------------------------------------------------------------
\* worker w calls consume_request(e) on the limiter of k and runs up to
\* its only `await`: both buckets are asked for a token and, when both
\* gave one, the request is entered in the history.  A call that returns
\* False never reaches the `await`.
WorkerConsume(w, k, e) ==
    LET lim == Limiter(k)
        r   == consume_request(lim, e, now)
    IN  /\ k \in user_limiters
        /\ workers[w].pc = "idle"
        /\ opCount < MaxOps
        /\ opCount' = opCount + 1
        /\ SetLimiter(k, [r.lim EXCEPT !.state_file = lim.state_file])
        /\ workers' = [workers EXCEPT ![w] =
                          IF r.ret
                          THEN [pc |-> "saving", user |-> k, endpoint |-> e]
                          ELSE NoWorker]
        /\ calls' = Append(calls,
                        [worker |-> w, user |-> k, endpoint |-> e, at |-> now,
                         ret |-> r.ret,
                         tokens_15min  |-> Refill(lim.buckets_15min[e], now).tokens,
                         tokens_24hour |-> Refill(lim.buckets_24hour[e], now).tokens])
        /\ lastOp' = Returned("consume_request", k, e, r.ret, FALSE)
        /\ everConsumed' = [everConsumed EXCEPT ![k] = @ \/ r.ret]
        /\ UNCHANGED << now, ticks, crashes, user_limiters, preCrash, sessionVars,
                        blacklist, discovery, loopVars, storeVars >>

\* the worker goes on from the `await`: _save_state writes the limiter as
\* it is now, and consume_request returns True
WorkerSave(w) ==
    LET k == workers[w].user
    IN  /\ workers[w].pc = "saving"
        /\ SetLimiter(k, Saved(Limiter(k), now))
        /\ workers' = [workers EXCEPT ![w] = NoWorker]
        /\ UNCHANGED << now, ticks, opCount, crashes, user_limiters, lastOp, preCrash,
                        everConsumed, sessionVars, blacklist, discovery, loopVars,
                        calls, storeVars >>

\* two coroutines of one tenant, switched at their `await`s
NextWorkers ==
    \/ \E d \in Elapsed : Tick(d)
    \/ \E k \in SoloUsers : GetLimiter(k)
    \/ \E w \in Workers, k \in SoloUsers, e \in ActionEndpoints :
          WorkerConsume(w, k, e)
    \/ \E w \in Workers : WorkerSave(w)

SpecWorkers == InitLimiter /\ [][NextWorkers]_vars

\* ------------------------------------------------------------------------
\* The rows of action_queue.  models.py declares the table, its statuses
\* and its defaults; the steps that move a row are those of the design:
\* PENDING -> EXECUTING -> COMPLETED | FAILED, FAILED -> PENDING by a retry
\* while retry_count < max_retries, PENDING -> CANCELLED.
\* ------------------------------------------------------------------------
\* everything but action_queue stays as it is
QueueFrame ==
    UNCHANGED << now, ticks, opCount, crashes, limiterVars, state_file, lastOp,
                 preCrash, everConsumed, sessionVars, blacklist, discovery, loopVars,
                 workerVars, engaging, confidence, active_sessions, secure_sessions >>

\* a dispatch is attempted: the row is inserted with the column defaults
Enqueue(q) ==
    /\ action_queue[q].status = "absent"
    /\ action_queue' = [action_queue EXCEPT ![q] = NewActionQueue]
    /\ QueueFrame

BeginExecution(q) ==
    /\ action_queue[q].status = "pending"
    /\ action_queue' = [action_queue EXCEPT ![q].status = "executing"]
    /\ QueueFrame

EndExecution(q, success) ==
    /\ action_queue[q].status = "executing"
    /\ action_queue' = [action_queue EXCEPT
                           ![q].status = IF success THEN "completed" ELSE "failed"]
    /\ QueueFrame

\* an explicit retry of a failed row
Retry(q) ==
    /\ action_queue[q].status = "failed"
    /\ action_queue[q].retry_count < action_queue[q].max_retries
    /\ action_queue' = [action_queue EXCEPT ![q].status = "pending",
                                            ![q].retry_count = @ + 1]
    /\ QueueFrame

\* a row that has not started is cancelled
CancelPending(q) ==
    /\ action_queue[q].status = "pending"
    /\ action_queue' = [action_queue EXCEPT ![q].status = "cancelled"]
    /\ QueueFrame

NextQueue ==
    \/ \E q \in QueueIds : Enqueue(q)
    \/ \E q \in QueueIds : BeginExecution(q)
    \/ \E q \in QueueIds, success \in BOOLEAN : EndExecution(q, success)
    \/ \E q \in QueueIds : Retry(q)
    \/ \E q \in QueueIds : CancelPending(q)

SpecQueue == InitLoop /\ [][NextQueue]_vars

\* ------------------------------------------------------------------------
\* Properties of the rate limiter
\* ------------------------------------------------------------------------
InRange(b) == 0 <= b.tokens /\ b.tokens <= b.capacity * Scale

\* the step is a call of op by k on e that returned
CallStep(op, k, e) ==
    /\ opCount' = opCount + 1
    /\ lastOp'.op = op
    /\ lastOp'.user = k
    /\ lastOp'.endpoint = e

\* the token count of a bucket as of now, after the lazy refill
TokensNow(b) == Refill(b, now).tokens

\* C1: in every reachable state every bucket of every limiter, in memory
\* and in every saved state file, holds 0 <= tokens <= capacity.
C1_TokensWithinCapacity ==
    \A k \in UserIds, e \in APIEndpoint :
        /\ k \in user_limiters =>
              InRange(buckets_15min[k][e]) /\ InRange(buckets_24hour[k][e])
        /\ state_file[k].kind = "state" =>
              /\ InRange(state_file[k].buckets_15min[e])
              /\ InRange(state_file[k].buckets_24hour[e])

\* C1 witness: after a restart and a clock advance, a 429 has emptied a
\* short bucket and a refill has capped a bucket at its capacity.
C1_Witness ==
    \E k \in user_limiters :
        /\ crashes >= 1 /\ ticks >= 1
        /\ lastOp.op = "get_usage_stats"
        /\ buckets_15min[k]["like"].tokens = 0
        /\ buckets_15min[k]["retweet"].last_refill = now
        /\ buckets_15min[k]["retweet"].tokens = 50 * Scale
        /\ state_file[k].kind = "state"

\* C2: consume_request returns True iff, after the lazy refill, both
\* buckets of the endpoint hold at least one token, and when it returns
\* True each bucket holds exactly one token less than after the refill.
C2_ConsumeIffBothAdmit ==
    [][\A k \in UserIds, e \in APIEndpoint :
          CallStep("consume_request", k, e) =>
             /\ lastOp'.ret <=> (/\ TokensNow(buckets_15min[k][e]) >= Scale
                                 /\ TokensNow(buckets_24hour[k][e]) >= Scale)
             /\ lastOp'.ret =>
                   /\ buckets_15min'[k][e].tokens
                         = TokensNow(buckets_15min[k][e]) - Scale
                   /\ buckets_24hour'[k][e].tokens
                         = TokensNow(buckets_24hour[k][e]) - Scale]_vars

\* C2 witness: a consume_request that returned True after a refill that
\* added tokens (the clock had advanced since the bucket's last refill).
C2_Witness ==
    \E k \in user_limiters :
        /\ lastOp.op = "consume_request" /\ lastOp.ret /\ lastOp.user = k
        /\ lastOp.endpoint = "retweet" /\ lastOp.at = now
        /\ now > 0
        /\ buckets_15min[k]["retweet"].last_refill = now
        /\ buckets_15min[k]["retweet"].tokens < 49 * Scale

\* C3: a consume_request that returns False has decremented neither bucket.
C3_NoPartialConsumption ==
    [][\A k \in UserIds, e \in APIEndpoint :
          (CallStep("consume_request", k, e) /\ ~lastOp'.ret) =>
             /\ buckets_15min'[k][e].tokens = TokensNow(buckets_15min[k][e])
             /\ buckets_24hour'[k][e].tokens = TokensNow(buckets_24hour[k][e])]_vars

\* C6: after a consume_request has returned True, a limiter built after a
\* process death never shows more tokens in a bucket than the dead
\* limiter's count plus the refill for the time elapsed, capped at capacity.
C6_RestartDurability ==
    \A k \in user_limiters, e \in APIEndpoint :
        (preCrash[k].valid /\ preCrash[k].consumed) =>
            /\ TokensNow(buckets_15min[k][e])
                  <= TokensNow(preCrash[k].buckets_15min[e])
            /\ TokensNow(buckets_24hour[k][e])
                  <= TokensNow(preCrash[k].buckets_24hour[e])

\* C7: a save is atomic: a process death during a save leaves the state
\* file either as it was or completely rewritten, never unreadable.
C7_AtomicSave ==
    \A k \in UserIds : state_file[k].kind \in {"absent", "state"}

\* TokenBucket.time_until_token_available equals n whole seconds
RetryAfterIs(b, n) ==
    LET r == TimeUntilTokenAvailable(Refill(b, now))
    IN  r.num = n * r.den

\* C9: with like at 1 per 15 minutes and 1000 per 24 hours, a like consume
\* on full buckets returns True, and a like consume that immediately
\* follows a successful one returns False with a retry-after of 900 s for
\* the short bucket.
C9_LikeOncePer15Min ==
    [][\A k \in UserIds :
          CallStep("consume_request", k, "like") =>
             /\ (/\ TokensNow(buckets_15min[k]["like"]) = 1 * Scale
                 /\ TokensNow(buckets_24hour[k]["like"]) = 1000 * Scale)
                   => lastOp'.ret
             /\ (/\ lastOp.op = "consume_request" /\ lastOp.ret
                 /\ lastOp.user = k /\ lastOp.endpoint = "like"
                 /\ lastOp.at = now)
                   => /\ ~lastOp'.ret
                      /\ TimeUntilTokenAvailable(buckets_15min'[k]["like"])
                            = [num |-> 900 * buckets_15min'[k]["like"].refill_rate,
                               den |-> buckets_15min'[k]["like"].refill_rate]
                      /\ TimeUntilTokenAvailable(buckets_24hour'[k]["like"]).num = 0]_vars

\* C9 witness: a like consume was denied at the instant at which an
\* earlier like consume of the same limiter, made on full buckets, had
\* succeeded.
C9_Witness ==
    \E k \in user_limiters :
        /\ lastOp.op = "consume_request" /\ ~lastOp.ret
        /\ lastOp.user = k /\ lastOp.endpoint = "like" /\ lastOp.at = now
        /\ request_history[k]["like"] = << now >>
        /\ state_file[k].kind = "state"
        /\ state_file[k].buckets_24hour["like"].tokens = 999 * Scale
        /\ RetryAfterIs(buckets_15min[k]["like"], 900)

\* C10: can_make_request returns allowed = True iff both buckets of the
\* endpoint hold at least one token after the lazy refill.
C10_CanAgreesWithConsume ==
    [][\A k \in UserIds, e \in APIEndpoint :
          CallStep("can_make_request", k, e) =>
             (lastOp'.ret <=> (/\ TokensNow(buckets_15min[k][e]) >= Scale
                               /\ TokensNow(buckets_24hour[k][e]) >= Scale))]_vars

\* the limiter of user id k after the step
LimiterNext(k) ==
    [buckets_15min   |-> buckets_15min'[k],
     buckets_24hour  |-> buckets_24hour'[k],
     request_history |-> request_history'[k],
     state_file      |-> state_file'[k]]

\* what a consume_request(e) on lim at t returns, with the buckets of e and
\* the request history it leaves
ConsumeResult(lim, e, t) ==
    LET r == consume_request(lim, e, t)
    IN  << r.ret, r.lim.buckets_15min[e], r.lim.buckets_24hour[e],
           r.lim.request_history >>

\* C11: can_make_request is a peek.  It lowers the token count of no
\* bucket, leaves the request history and the state file as they are, and
\* a consume_request made at the same instant returns the same value and
\* leaves the same buckets and history whether or not the can_make_request
\* came first.
C11_CanMakeRequestIsPeek ==
    [][\A k \in UserIds, e \in APIEndpoint :
          CallStep("can_make_request", k, e) =>
             /\ \A e2 \in APIEndpoint :
                   /\ buckets_15min'[k][e2].tokens >= buckets_15min[k][e2].tokens
                   /\ buckets_24hour'[k][e2].tokens >= buckets_24hour[k][e2].tokens
                   /\ ConsumeResult(LimiterNext(k), e2, now)
                         = ConsumeResult(Limiter(k), e2, now)
             /\ request_history' = request_history
             /\ state_file' = state_file]_vars

\* C11 witness: a can_make_request on a like bucket that a consume had
\* emptied earlier; the lazy refill has moved the bucket in memory while
\* the state file still shows the emptied bucket.
C11_Witness ==
    \E k \in user_limiters :
        /\ lastOp.op = "can_make_request" /\ lastOp.user = k
        /\ lastOp.endpoint = "like" /\ lastOp.at = now
        /\ buckets_15min[k]["like"].last_refill = now
        /\ buckets_15min[k]["like"].tokens > 0
        /\ buckets_15min[k]["like"].tokens < Scale
        /\ state_file[k].kind = "state"
        /\ state_file[k].buckets_15min["like"].tokens = 0

\* C12: when handle_429_error(e) has returned, the short bucket of e holds
\* 0 tokens as of that instant and the long bucket of e is as it was; a
\* consume_request(e) that follows at the same instant returns False,
\* whatever the time since the short bucket was last refilled.
C12_RateLimitedEmptiesShortBucket ==
    [][\A k \in UserIds, e \in APIEndpoint :
          /\ (CallStep("handle_429_error", k, e) /\ ~lastOp'.raised) =>
                /\ Refill(buckets_15min'[k][e], now).tokens = 0
                /\ buckets_24hour'[k][e] = buckets_24hour[k][e]
          /\ (/\ CallStep("consume_request", k, e)
              /\ lastOp.op = "handle_429_error" /\ ~lastOp.raised
              /\ lastOp.user = k /\ lastOp.endpoint = e /\ lastOp.at = now) =>
                ~lastOp'.ret]_vars

\* C13: after handle_429_error(e, reset_time) with reset_time ResetAfter
\* seconds ahead, can_make_request(e) returns False (with the remaining
\* seconds as retry-after) at every time before reset_time and True at
\* and after reset_time.
C13_ResetAnchorsRefill ==
    [][\A k \in UserIds, e \in APIEndpoint :
          (/\ CallStep("can_make_request", k, e)
           /\ lastOp.op = "handle_429_error" /\ lastOp.reset = "int"
           /\ lastOp.user = k /\ lastOp.endpoint = e) =>
             (lastOp'.ret <=> now >= lastOp.at + ResetAfter)]_vars

C17_NeverThrows ==
    lastOp.op \in {"can_make_request", "consume_request", "handle_429_error"}
        => ~lastOp.raised

\* C18: a persistence failure is surfaced.  A consume_request that returns
\* True, and a handle_429_error that returns normally, have recorded the
\* limiter durably: the state file holds the limiter as it is in memory.
C18_SuccessMeansSaved ==
    [][\A k \in UserIds, e \in APIEndpoint :
          \/ (CallStep("consume_request", k, e) /\ lastOp'.ret)
          \/ (CallStep("handle_429_error", k, e) /\ ~lastOp'.raised)
          => state_file'[k] = SavedState(buckets_15min'[k], buckets_24hour'[k],
                                         request_history'[k], now)]_vars

\* ------------------------------------------------------------------------
\* Properties of clients and executors
\* ------------------------------------------------------------------------
\* C4: admission precedes execution.  Every like, retweet, liking-users or
\* recent-tweets call sent to the X API is preceded by a consume_request
\* of the same id and endpoint that returned True, so at every moment the
\* calls sent for an endpoint are no more than its successful consumes.
C4_AdmissionPrecedesExecution ==
    \A k \in UserIds, e \in APIEndpoint : apiCalls[k][e] <= admitted[k][e]

\* C5: at-most-once execution.  A pass of execute_selected_actions over a
\* candidate whose (tenant, tweet, action type) already has a record of a
\* successful execution in the tenant's history sends no like / retweet
\* for it again.
C5_AtMostOnceExecution ==
    [][\A u \in Tenants :
          (/\ sessions'[u].i = sessions[u].i + 1
           /\ lastStep'.called)
          => ~ \E j \in 1..Len(engagement_history[u]) :
                  /\ engagement_history[u][j].action = lastStep'.endpoint
                  /\ engagement_history[u][j].tweet_id = lastStep'.tweet_id]_vars

\* C8: the daily quota holds inside a session.  The actions an executor
\* has counted for the current date never exceed max_daily_actions.
C8_DailyQuotaEnforced ==
    \A u \in Tenants :
        executors[u].built =>
            executors[u].execution_stats.daily_count
                <= executors[u].settings.max_daily_actions

\* a pass of the loop of execute_selected_actions of u has been made
PassStep(u) ==
    /\ sessions[u].pc = "running"
    /\ sessions'[u].i = sessions[u].i + 1

\* the clock at which the pass sent its call to the X API
CallTime == now' - lastStep'.slept

\* C14: within one session the outcomes are reported in the order of the
\* candidates: each pass appends the outcome of its candidate and leaves
\* the earlier outcomes as they are, and a session that returns has one
\* outcome per candidate.  A candidate whose like / retweet the limiter
\* does not admit is reported as failed with reason rate_limited_local,
\* and the passes after it are still made.
C14_OrderedOutcomes ==
    [][\A u \in Tenants :
          /\ PassStep(u) =>
                LET res == sessions'[u].results
                    j   == sessions'[u].i
                IN  /\ Len(res) = j
                    /\ SubSeq(res, 1, j - 1) = sessions[u].results
                    /\ res[j].tweet_id = lastStep'.tweet_id
                    /\ (/\ lastStep'.allowed
                        /\ ~consume_request(Limiter(lastStep'.id), lastStep'.endpoint,
                                            CallTime).ret)
                          => /\ ~res[j].success
                             /\ res[j].reason = "rate_limited_local"
          /\ sessions'[u].ret = "success" =>
                Len(sessions'[u].results) = sessions'[u].n]_vars

\* C15: execute_selected_actions always returns one outcome per candidate
\* it was given, also when the session cannot start (client unavailable,
\* daily quota used up, outside the active hours).
C15_OutcomePerCandidate ==
    \A u \in Tenants :
        sessions[u].pc = "returned" =>
            Len(sessions[u].results) = sessions[u].n

\* C16: tenant isolation.  A pass of tenant u's session is admitted against
\* and consumes from the limiter of u only: it changes no bucket, no
\* request history and no state file of any other id.
C16_TenantIsolation ==
    [][\A u \in Tenants :
          PassStep(u) =>
             \A k \in UserIds \ {u} : LimiterNext(k) = Limiter(k)]_vars

\* C27: when the X API answers an admitted like / retweet of tenant u with
\* 429 (with or without a reset hint), handle_429_error empties the short
\* bucket of that same tenant and action class and returns normally, the
\* candidate is recorded under its own action as failed with reason
\* rate_limited_upstream, no token is consumed for it, and the session goes
\* on with the next candidate.
C27_UpstreamRateLimited ==
    [][\A u \in Tenants, p \in TweetIds, a \in RecommendedActions \ {"skip"},
          o \in {"429", "429_reset"} :
          (ProcessCandidate(u, p, a, o) /\ lastStep'.called) =>
             LET e   == lastStep'.endpoint
                 res == sessions'[u].results[sessions'[u].i]
             IN  /\ u \in user_limiters'
                 /\ buckets_15min'[u][e].tokens = 0
                 /\ ~lastStep'.raised
                 /\ res.action = a
                 /\ ~res.success
                 /\ res.reason = "rate_limited_upstream"
                 /\ ~lastStep'.consumed
                 /\ buckets_24hour'[lastStep'.id][e].tokens >=
                       buckets_24hour[lastStep'.id][e].tokens
                 /\ sessions'[u].pc = "running"]_vars

\* C25: the loop sleeps its human-pacing delay only after a candidate whose
\* action was executed successfully: after a pass whose candidate was
\* denied, failed, got a 429, was of a disabled type or was skipped, the
\* loop has not slept.
C25_SleepOnlyAfterSuccess ==
    [][\A u \in Tenants :
          PassStep(u) => (lastStep'.slept > 0 => lastStep'.success)]_vars

\* C23: the daily counter is durable.  An executor built for tenant u
\* starts with daily_count at the number of actions already executed for
\* u on that date, as recorded in u's engagement history.
C23_DailyCountDurable ==
    [][\A u \in Tenants :
          (/\ built' = built + 1
           /\ lastStep'.op = "create_executor"
           /\ lastStep'.user = u) =>
              executors'[u].execution_stats.daily_count =
                  Cardinality({j \in DOMAIN engagement_history[u] :
                                  today(engagement_history[u][j].timestamp) = today(now)})]_vars

\* ------------------------------------------------------------------------
\* Properties of the decision
\* ------------------------------------------------------------------------
\* C19: the recommended action of an analysis that returned normally is
\* what the first matching rule gives: not safe or high risk -> skip; both
\* scores >= 70 -> both; like score >= 70 -> like; retweet score >= 70 ->
\* retweet; max of the scores >= min_engagement_score -> the higher of the
\* two (either one when they are equal); otherwise skip.
C19_FirstMatchingRule ==
    LET r       == analysis.result
        l       == r.like_score
        t       == r.retweet_score
        higher  == IF l > t THEN {"like"}
                   ELSE IF t > l THEN {"retweet"}
                   ELSE {"like", "retweet"}
        rule(m) == IF ~r.safety_check \/ r.risk_level = "high" THEN {"skip"}
                   ELSE IF l >= 70 /\ t >= 70 THEN {"both"}
                   ELSE IF l >= 70 THEN {"like"}
                   ELSE IF t >= 70 THEN {"retweet"}
                   ELSE IF l >= m \/ t >= m THEN higher
                   ELSE {"skip"}
    IN  (analysis.pc \in {"analyzed", "executed"} /\ ~r.error) =>
            \A u \in Tenants :
                r.recommended_action \in rule(settings_file[u].min_engagement_score)

C22_ScorerFallback ==
    LET failed == analysis.like.raised \/ analysis.retweet.raised
                     \/ analysis.result.error
    IN  (analysis.pc \in {"analyzed", "executed"} /\ failed) =>
            /\ analysis.result.like_score = 50
            /\ analysis.result.retweet_score = 50
            /\ analysis.result.safety_check
            /\ analysis.result.risk_level = "low"
            /\ analysis.result.recommended_action = "skip"

\* ------------------------------------------------------------------------
\* Properties of discovery
\* ------------------------------------------------------------------------
\* an analyze_engaging_users of tenant u returns in this step
DiscoveryStep(u) ==
    /\ opCount' = opCount + 1
    /\ lastStep'.op = "analyze_engaging_users"
    /\ lastStep'.user = u

\* C21: an analyze_engaging_users that found engaging accounts returns a
\* decision for each of them: a blacklisted account gets skip with the
\* reasoning "blacklisted", and an account that is not blacklisted gets its
\* decision whatever the blacklist holds.
C21_BlacklistedSkipped ==
    [][\A u \in Tenants :
          (DiscoveryStep(u) /\ discovery'[u].engaging_users # {}) =>
             LET res == discovery'[u].analysis_results
             IN  /\ discovery'[u].ret = "success"
                 /\ \A a \in discovery'[u].engaging_users :
                       \E j \in DOMAIN res :
                          /\ res[j].user = a
                          /\ a \in blacklist[u] =>
                                /\ res[j].recommended_action = "skip"
                                /\ res[j].reasoning = "blacklisted"]_vars

\* ------------------------------------------------------------------------
\* Properties of the workers
\* ------------------------------------------------------------------------
\* the call found exactly one whole token in one of its two buckets, and
\* at least one in the other
OneTokenLeft(c) ==
    \/ c.tokens_15min \div Scale = 1 /\ c.tokens_24hour >= Scale
    \/ c.tokens_24hour \div Scale = 1 /\ c.tokens_15min >= Scale

\* C28: when two workers of one tenant call consume_request for the same
\* endpoint at the same time and the first call finds exactly one token
\* in a bucket, the first call returns True and the second False, whatever
\* the order in which the two coroutines go on from their `await`; that
\* bucket has lost exactly the one token and has no whole token left.
C28_ConsumeIsAtomic ==
    \A i \in DOMAIN calls, j \in DOMAIN calls :
        (/\ i < j
         /\ calls[i].worker # calls[j].worker
         /\ calls[i].user = calls[j].user
         /\ calls[i].endpoint = calls[j].endpoint
         /\ calls[i].at = calls[j].at
         /\ OneTokenLeft(calls[i]))
           => LET c   == calls[i]
                  lim == Limiter(c.user)
              IN  /\ c.ret
                  /\ ~calls[j].ret
                  /\ now = c.at =>
                        /\ c.tokens_15min \div Scale = 1 =>
                              lim.buckets_15min[c.endpoint].tokens =
                                 c.tokens_15min - Scale
                        /\ c.tokens_24hour \div Scale = 1 =>
                              lim.buckets_24hour[c.endpoint].tokens =
                                 c.tokens_24hour - Scale

\* the second worker has called while the first is still at its `await`
C28_Witness ==
    /\ Len(calls) = 2
    /\ calls[1].worker # calls[2].worker
    /\ calls[1].endpoint = calls[2].endpoint
    /\ calls[1].at = calls[2].at
    /\ OneTokenLeft(calls[1])
    /\ workers[calls[1].worker].pc = "saving"
    /\ calls[1].ret
    /\ ~calls[2].ret

\* ------------------------------------------------------------------------
\* Properties of the event loop
\* ------------------------------------------------------------------------
\* the coroutine of u is inside one of the two human-pacing delays
InDelay(u) == tasks[u].pc \in {"client_delay", "loop_delay"}

\* C26: while tenant a is in a human-pacing delay (the executor's, or the
\* client's before a like/retweet), a running session of another tenant b
\* that is ready for its next step can take it: no coroutine holds the
\* event loop's thread.
C26_DelayDoesNotBlockOthers ==
    \A a \in Tenants, b \in Tenants :
        (a # b /\ InDelay(a) /\ sessions[b].pc = "running" /\ tasks[b].pc = "runnable")
            => loop_thread = "none"

\* C29: a cancellation takes effect only between candidates (no like or
\* retweet of the session is in flight when it ends), the outcomes
\* produced so far are kept and written with the batch record, for the
\* failed candidates as for the successful ones, and a cancelled session
\* starts no further candidate.
C29_CancelBetweenCandidates ==
    [][\A u \in Tenants :
          /\ (sessions[u].pc = "running" /\ sessions'[u].pc = "cancelled") =>
                /\ tasks[u].pc \notin {"client_delay", "in_call"}
                /\ sessions'[u].results = sessions[u].results
                /\ batch_history'[u] =
                      save_execution_batch_record(batch_history[u],
                                                  sessions[u].results, now)
          /\ (sessions[u].pc = "cancelled" /\ sessions'[u].pc = "cancelled") =>
                sessions'[u].i = sessions[u].i]_vars

\* C30: every session that has started comes to an end (it returns its
\* result, or is cancelled), also when the X API never answers one of its
\* calls: the call would time out and count as a failure of its candidate.
C30_SessionTerminates ==
    \A u \in Tenants :
        (sessions[u].pc = "running") ~> (sessions[u].pc \in {"returned", "cancelled"})

\* ------------------------------------------------------------------------
\* Properties of the rows of action_queue
\* ------------------------------------------------------------------------
\* the changes of status a row may make
StatusMoves ==
    {<< "absent", "pending" >>, << "pending", "executing" >>,
     << "executing", "completed" >>, << "executing", "failed" >>,
     << "failed", "pending" >>, << "pending", "cancelled" >>}

NewEntry(u) == sessions'[u].results[Len(sessions'[u].results)]

\* the pass of u has appended exactly one entry
OneEntry(u) == Len(sessions'[u].results) = Len(sessions[u].results) + 1

DailyCount(u) == executors[u].execution_stats.daily_count

\* C32: a candidate whose decision is skip is recorded as skipped, with no
\* pacing delay, no admission check and no call of the client; every bucket,
\* the request history and the daily count are left as they were
C32_SkipHasNoEffect ==
    [][\A u \in SoloUsers, p \in PassTweetIds, o \in ApiOutcomes :
          ProcessCandidate(u, p, "skip", o) =>
             /\ OneEntry(u)
             /\ NewEntry(u).action = "skipped"
             /\ ~NewEntry(u).success
             /\ now' = now
             /\ lastStep'.slept = 0
             /\ ~lastStep'.allowed
             /\ ~lastStep'.called
             /\ ~lastStep'.consumed
             /\ apiCalls' = apiCalls
             /\ admitted' = admitted
             /\ UNCHANGED << limiterVars, state_file >>
             /\ executors'[u].execution_stats = executors[u].execution_stats]_vars

\* a skipped candidate right after a successful like
C32_Witness ==
    /\ lastStep.op = "candidate"
    /\ lastStep.action = "skip"
    /\ sessions["u1"].i = 2
    /\ sessions["u1"].results[1].success
    /\ sessions["u1"].results[2].action = "skipped"
    /\ DailyCount("u1") = 1
    /\ admitted["None"]["like"] = 1

\* the calls of endpoint e the pass has issued, over the clients of every id
CallsIssued(e) ==
    Cardinality({k \in UserIds : apiCalls'[k][e] = apiCalls[k][e] + 1})

\* the pass has left the number of calls of endpoint e as it was
NoCallIssued(e) == \A k \in UserIds : apiCalls'[k][e] = apiCalls[k][e]

\* the consume_request calls of endpoint e that took a token in the pass
TokensTaken(e) ==
    Cardinality({k \in UserIds : admitted'[k][e] = admitted[k][e] + 1})

\* the pass has taken nothing from the buckets of endpoint e
NoTokenTaken(e) ==
    \A k \in UserIds :
       /\ admitted'[k][e] = admitted[k][e]
       /\ buckets_15min'[k][e].tokens >= buckets_15min[k][e].tokens
       /\ buckets_24hour'[k][e].tokens >= buckets_24hour[k][e].tokens

\* _execute_like_action reaches the X API in the state before the pass: likes
\* are switched on and the limiter of the executor's client admits a like
LikeGoesOut(u) ==
    LET x == executors[u]
    IN  /\ x.settings.auto_like_enabled
        /\ x.twitter_client.available
        /\ can_make_request(Limiter(x.twitter_client.user_id), "like", now).ret

\* C33: a decision of both is carried out as a like only: the pass issues at
\* most one like call, exactly one when likes are switched on and the limiter
\* admits a like, and no retweet call; it takes at most one token of the
\* Like class and none of the Retweet class
C33_BothIsLikeOnly ==
    [][\A u \in SoloUsers, p \in PassTweetIds, o \in ApiOutcomes :
          (lastStep'.action = "both" /\ ProcessCandidate(u, p, "both", o)) =>
             /\ OneEntry(u)
             /\ lastStep'.endpoint = "like"
             /\ \A k \in UserIds : apiCalls'[k]["like"] - apiCalls[k]["like"] \in {0, 1}
             /\ CallsIssued("like") = (IF LikeGoesOut(u) THEN 1 ELSE 0)
             /\ NoCallIssued("retweet")
             /\ \A k \in UserIds : admitted'[k]["like"] - admitted[k]["like"] \in {0, 1}
             /\ TokensTaken("like") <= CallsIssued("like")
             /\ NoTokenTaken("retweet")
             /\ executors'[u].execution_stats.retweets_executed =
                   executors[u].execution_stats.retweets_executed]_vars

\* a both candidate carried out as one successful like while retweets are
\* switched on
C33_Witness ==
    /\ lastStep.op = "candidate"
    /\ lastStep.action = "both"
    /\ lastStep.success
    /\ executors["u1"].settings.auto_retweet_enabled
    /\ apiCalls["None"]["like"] = 1
    /\ admitted["None"]["like"] = 1
    /\ apiCalls["None"]["retweet"] = 0
    /\ executors["u1"].execution_stats.likes_executed = 1

\* C33 as stated: every both candidate issues exactly one like call
C33_ExactlyOneLikeCall ==
    [][\A u \in SoloUsers, p \in PassTweetIds, o \in ApiOutcomes :
          ProcessCandidate(u, p, "both", o) =>
             /\ CallsIssued("like") = 1
             /\ NoCallIssued("retweet")
             /\ TokensTaken("like") <= 1
             /\ NoTokenTaken("retweet")]_vars

\* the daily count of executor x as is_available reads it at t: the stored
\* count, or 0 once the date is no longer the one of the last reset
QuotaCount(x, t) ==
    IF x.execution_stats.last_reset # today(t) THEN 0 ELSE x.execution_stats.daily_count

\* the step is a pass of u that has executed its action
ExecutedStep(u) == PassStep(u) /\ lastStep'.success

\* C34: the daily quota count of a tenant goes up by exactly 1 with each
\* executed action, is left alone by skipped, denied and failed candidates
\* and by every other step, and goes back to 0 when the date changes and at
\* no other time
C34_DailyCountSteps ==
    [][\A u \in SoloUsers :
          executors[u].built =>
             LET c    == QuotaCount(executors[u], now)
                 cc   == QuotaCount(executors'[u], now')
                 date == today(now') # today(now)
             IN  /\ (ExecutedStep(u) /\ ~date) => cc = c + 1
                 /\ (~ExecutedStep(u) /\ ~date) => cc = c
                 /\ (~ExecutedStep(u) /\ date) => cc = 0]_vars

\* what a pass of u leaves alone when the action is switched off: no call
\* of either endpoint, nothing taken from a bucket, the limiter, the
\* execution statistics and the engagement history as they were, and one
\* entry that carries the action's error and is not a success
SwitchedOffEffect(u) ==
    /\ OneEntry(u)
    /\ ~NewEntry(u).success
    /\ NewEntry(u).reason = "disabled"
    /\ sessions'[u].successful_actions = sessions[u].successful_actions
    /\ ~lastStep'.called
    /\ ~lastStep'.consumed
    /\ ~lastStep'.success
    /\ apiCalls' = apiCalls
    /\ admitted' = admitted
    /\ NoTokenTaken("like")
    /\ NoTokenTaken("retweet")
    /\ UNCHANGED << limiterVars, state_file >>
    /\ executors'[u].execution_stats = executors[u].execution_stats
    /\ engagement_history' = engagement_history

\* C39: with auto_like_enabled false a like or both decision, and with
\* auto_retweet_enabled false a retweet decision, issues no call, takes no
\* token, leaves the daily count and the engagement history as they were
\* and is reported with an error, not as a success; a both decision is
\* governed by auto_like_enabled alone: with likes switched on and retweets
\* switched off it is carried out as a like
C39_SwitchedOffIsAnError ==
    [][\A u \in SoloUsers, p \in PassTweetIds, o \in ApiOutcomes :
          /\ \A action \in {"like", "both"} :
                (/\ ~executors[u].settings.auto_like_enabled
                 /\ lastStep'.action = action
                 /\ ProcessCandidate(u, p, action, o))
                   => SwitchedOffEffect(u)
          /\ (/\ ~executors[u].settings.auto_retweet_enabled
              /\ lastStep'.action = "retweet"
              /\ ProcessCandidate(u, p, "retweet", o))
                => SwitchedOffEffect(u)
          /\ (/\ ~executors[u].settings.auto_retweet_enabled
              /\ LikeGoesOut(u)
              /\ lastStep'.action = "both"
              /\ ProcessCandidate(u, p, "both", o))
                => /\ CallsIssued("like") = 1
                   /\ NoCallIssued("retweet")]_vars

\* a retweet candidate turned down by the switch right after a successful
\* like
C39_Witness ==
    /\ lastStep.op = "candidate"
    /\ lastStep.action = "retweet"
    /\ ~executors["u1"].settings.auto_retweet_enabled
    /\ sessions["u1"].i = 2
    /\ sessions["u1"].results[1].success
    /\ sessions["u1"].results[2].action = "retweet"
    /\ sessions["u1"].results[2].reason = "disabled"
    /\ ~sessions["u1"].results[2].success
    /\ sessions["u1"].successful_actions = 1
    /\ DailyCount("u1") = 1
    /\ apiCalls["None"]["like"] = 1
    /\ apiCalls["None"]["retweet"] = 0

\* C39 as stated: a both decision is switched off by auto_retweet_enabled
C39_BothFollowsRetweetSwitch ==
    [][\A u \in SoloUsers, p \in PassTweetIds, o \in ApiOutcomes :
          /\ (/\ ~executors[u].settings.auto_like_enabled
              /\ ProcessCandidate(u, p, "like", o))
                => SwitchedOffEffect(u)
          /\ \A action \in {"retweet", "both"} :
                (/\ ~executors[u].settings.auto_retweet_enabled
                 /\ ProcessCandidate(u, p, action, o))
                   => SwitchedOffEffect(u)]_vars

\* ------------------------------------------------------------------------
\* Properties of get_engaging_users
\* ------------------------------------------------------------------------
\* the users the two getters have handed back, the ones who liked first
Fetched == engaging.liking_users \o engaging.retweeting_users

\* the position at which account a is first seen in Fetched
FirstSeen(a) == CHOOSE i \in 1..Len(Fetched) :
                   /\ Fetched[i] = a
                   /\ \A j \in 1..(i - 1) : Fetched[j] # a

IsReturned(a) == \E i \in 1..Len(engaging.ret) : engaging.ret[i] = a

\* C35: get_engaging_users returns each user id at most once, in first-seen
\* order (the users who liked, then the users who retweeted and were not
\* seen before), cut to at most max_users users
C35_UniqueInFirstSeenOrder ==
    engaging.pc = "returned" =>
       LET ret == engaging.ret
       IN  /\ \A i, j \in 1..Len(ret) : i # j => ret[i] # ret[j]
           /\ Len(ret) <= engaging.max_users
           /\ \A i \in 1..Len(ret) : \E j \in 1..Len(Fetched) : Fetched[j] = ret[i]
           /\ \A i, j \in 1..Len(ret) : i < j => FirstSeen(ret[i]) < FirstSeen(ret[j])
           /\ \A j \in 1..Len(Fetched) :
                 \/ IsReturned(Fetched[j])
                 \/ /\ Len(ret) = engaging.max_users
                    /\ \A i \in 1..Len(ret) : FirstSeen(ret[i]) < FirstSeen(Fetched[j])

\* two users liked, the later one first in the list; one of them also
\* retweeted: the list that comes back names each once, in the order seen
C35_Witness ==
    /\ engaging.pc = "returned"
    /\ engaging.max_users = 2
    /\ engaging.liking_users = << "a2", "a1" >>
    /\ engaging.retweeting_users = << "a1" >>
    /\ engaging.ret = << "a2", "a1" >>

\* ------------------------------------------------------------------------
\* Properties of the request history
\* ------------------------------------------------------------------------
\* every entry of history h but its last is an entry of history g
KeptFrom(h, g) ==
    \A i \in 1..(Len(h) - 1) : \E j \in 1..Len(g) : g[j] = h[i]

\* C36: after a consume_request that returned True the request history of
\* the endpoint ends with the time of this call and holds no time more than
\* 24 hours back, and nothing but the time of this call was added; a
\* consume_request that returned False leaves the history as it was
C36_HistoryAfterConsume ==
    [][\A k \in UserIds, e \in APIEndpoint :
          CallStep("consume_request", k, e) =>
             LET g == request_history[k][e]
                 h == request_history'[k][e]
             IN  /\ lastOp'.ret =>
                       /\ Len(h) >= 1
                       /\ h[Len(h)] = now
                       /\ \A i \in 1..Len(h) : now - h[i] <= window_24hour
                       /\ KeptFrom(h, g)
                       /\ \A j \in 1..Len(g) :
                             now - g[j] < window_24hour =>
                                \E i \in 1..Len(h) : h[i] = g[j]
                 /\ ~lastOp'.ret => request_history'[k] = request_history[k]]_vars

\* a consume_request that returned True a day and ten minutes after the one
\* of the prior run, whose time it has dropped from the history
C36_Witness ==
    /\ lastOp.op = "consume_request"
    /\ lastOp.ret
    /\ lastOp.endpoint = "like"
    /\ state_file["u1"].kind = "state"
    /\ now = 600 + window_24hour
    /\ request_history["u1"]["like"] = << now >>
    /\ opCount = 1

\* ------------------------------------------------------------------------
\* Properties of _calculate_confidence
\* ------------------------------------------------------------------------
\* the tenth nearest to the double x: x is within a few spacings of it
Tenths(x) == CHOOSE n \in -5..15 : x.t = n /\ x.d >= -320 /\ x.d <= 320

\* the confidence of the claim, in tenths, before the clamp
ConfidenceInTenths(like_score, retweet_score, safe) ==
    LET m == IF like_score >= retweet_score THEN like_score ELSE retweet_score
    IN  7 + (IF m >= 80 THEN 2 ELSE IF m <= 30 THEN 1 ELSE 0)
          + (IF safe THEN 1 ELSE -2)

\* C37: in tenths, the confidence is the clamp to [0, 1] of 0.7, plus 0.2
\* when the larger score is at least 80, otherwise plus 0.1 when it is at
\* most 30, plus 0.1 when the safety check says safe and minus 0.2 when not
C37_ConfidenceFormula ==
    confidence.pc = "returned" =>
       LET c == ConfidenceInTenths(confidence.like_score, confidence.retweet_score,
                                   GetSafe(confidence.safety_check))
       IN  /\ \E n \in -5..15 :
                 /\ confidence.ret.t = n
                 /\ confidence.ret.d >= -320
                 /\ confidence.ret.d <= 320
           /\ Tenths(confidence.ret) = (IF c < 0 THEN 0 ELSE IF c > 10 THEN 10 ELSE c)

\* the larger score is exactly 80 and the tweet is safe: 0.7 + 0.2 + 0.1,
\* the double 0.9999999999999999
C37_Witness ==
    /\ confidence.pc = "returned"
    /\ confidence.like_score = 80
    /\ confidence.retweet_score = 10
    /\ GetSafe(confidence.safety_check)
    /\ confidence.ret = Double(10, -80)

\* ------------------------------------------------------------------------
\* Properties of the secure sessions
\* ------------------------------------------------------------------------
\* C38: active_sessions has an entry for a session id exactly while a
\* secure session of that id is open, and the entry holds the client of that
\* session; a request that has left its session, by return, by an exception
\* (invalid keys among them) or by cancellation, holds no client, and its
\* leaving removes no entry of another session
C38_EntryWhileOpen ==
    /\ \A session_id \in SessionIds :
          session_id \in DOMAIN active_sessions
             <=> \E r \in Requests : IsOpen(r, session_id)
    /\ \A session_id \in DOMAIN active_sessions :
          /\ active_sessions[session_id].status = "active"
          /\ active_sessions[session_id].client.user_id = session_id
    /\ \A r \in Requests :
          /\ secure_sessions[r].pc = "open" <=> secure_sessions[r].twitter_client # "None"
          /\ secure_sessions[r].exc = "ValueError" => secure_sessions[r].pc = "closed"


====
